---- MODULE Spec2Model ----
\* A model of the "convenient effects" plugin: the effect handler
\* (src/module/effects/effect-handler.ts), which reads, creates, updates and
\* deletes the host's active effects on actors and tokens, and the
\* status-effect name list of the public API.
EXTENDS Integers, Sequences, FiniteSets, TLC

\* ---------------------------------------------------------------- bounds

\* Most active effects the world (all actors together) holds in the model.
MaxEffects == 2
\* Most status-effect calls of one run (they are timestamped 1..MaxCalls).
MaxCalls == 5

\* ------------------------------------------------------------ the values

\* The host's actors, and the tokens that represent them on the canvas.
Actors == {"a1", "a2"}
Tokens == {"t1", "t2"}

\* Display names an active effect can carry. "Bless" and "bless" differ only
\* in case.
Labels == {"Bless", "bless", "Haste"}

\* What a caller can pass as effectName: a display name, a localization key,
\* or the empty string.
EffectNames == Labels \cup {"EFFECT.Bless", ""}

\* Ids the host can give an embedded active effect; the host draws an id no
\* effect of the actor carries.
EffectIds == 1 .. MaxEffects

\* undefined / null, where an Effect or an ActiveEffectData is expected.
Undefined == [undefined |-> TRUE]

\* undefined / the empty string, where the id of an effect is expected.
NoId == 0

\* The two calls that can overlap, and the arguments of a call not made yet.
Calls == {1, 2}
NoCall == [op |-> "none"]

\* The plain Effect value object a caller passes (name, isDisabled).
Effects == [name : Labels \cup {"EFFECT.Bless"}, isDisabled : BOOLEAN]

\* The host's ActiveEffectData a caller passes (label, disabled).
ActiveEffectDatas == [label : Labels, disabled : BOOLEAN]

\* ------------------------------------------------------------- variables

VARIABLES
    effects,            \* actor -> its embedded collection of active effects,
                        \* in the collection's iteration order
    last,               \* the handler call observed: its name, arguments and
                        \* result, and the collections it found
    pc,                 \* overlapping add calls: where each call stands
    call,               \* overlapping add calls: each call's arguments
    statusEffectNames,  \* the stored setting 'statusEffectNames'
    clock,              \* status-effect calls completed so far
    lastAdd,            \* name -> time of its latest addStatusEffect (0: never)
    lastRemove,         \* name -> time of its latest removeStatusEffect (0: never)
    lastReset,          \* time of the latest resetStatusEffects (0: never)
    lastStatus          \* the last status-effect call: its name and argument

vars == <<effects, last, pc, call, statusEffectNames, clock, lastAdd, lastRemove,
          lastReset, lastStatus>>

handlerVars == <<effects, last, pc, call>>
statusVars == <<statusEffectNames, clock, lastAdd, lastRemove, lastReset, lastStatus>>

\* ------------------------------------------------------- small utilities

Range(s) == {s[i] : i \in 1 .. Len(s)}

NoDuplicates(s) == \A i, j \in 1 .. Len(s) : i # j => s[i] # s[j]

\* Sequences over S of length at most n.
SeqsUpTo(S, n) == UNION {[1 .. k -> S] : k \in 0 .. n}

\* -------------------------------------------------- names and comparison

\* String.toLowerCase on the model's names.
Lower(s) ==
    CASE s = "Bless" -> "bless"
      [] s = "Haste" -> "haste"
      [] s = "EFFECT.Bless" -> "effect.bless"
      [] OTHER -> s

\* isStringEquals(a, b): equality of two names ignoring case.
isStringEquals(stringToCheck1, stringToCheck2) ==
    Lower(stringToCheck1) = Lower(stringToCheck2)

\* i18n(key): the host's localization of a key; a string that is no key
\* is returned as it is.
i18n(key) == IF key = "EFFECT.Bless" THEN "Bless" ELSE key

\* ================================================================
\* The status-effect name list (API facade)
\* ================================================================

\* [...new Set(array)]: every value once, at the place of its first occurrence.
RECURSIVE Dedupe(_)
Dedupe(s) ==
    IF s = <<>> THEN <<>>
    ELSE LET init == Dedupe(SubSeq(s, 1, Len(s) - 1))
             x == s[Len(s)]
         IN IF x \in Range(init) THEN init ELSE Append(init, x)

\* Mutant of _defaultStatusEffectNames: a stock name is listed.
DefaultStatusEffectNamesStock == <<"Bless">>

\* get _defaultStatusEffectNames
DefaultStatusEffectNames == <<>>

\* Mutants of addStatusEffect: the duplicates are kept; the name is put first.
AddStatusEffectListNoDedupe(list, name) == Append(list, name)

AddStatusEffectListFront(list, name) == Dedupe(<<name>> \o list)

\* The list addStatusEffect(name) stores: push, then remove duplicates.
AddStatusEffectList(list, name) == Dedupe(Append(list, name))

\* Mutant of removeStatusEffect: the names are compared ignoring case.
RemoveStatusEffectListIgnoreCase(list, name) ==
    SelectSeq(list, LAMBDA x : ~isStringEquals(x, name))

\* The list removeStatusEffect(name) stores: filter(statusEffect !== name).
RemoveStatusEffectList(list, name) == SelectSeq(list, LAMBDA x : x # name)

\* Mutant of isStatusEffect: the names are compared ignoring case.
isStatusEffectIgnoreCase(name) ==
    \E i \in 1 .. Len(statusEffectNames) : isStringEquals(statusEffectNames[i], name)

\* isStatusEffect(name): statusEffectNames.includes(name)
isStatusEffect(name) == \E i \in 1 .. Len(statusEffectNames) : statusEffectNames[i] = name

addStatusEffect(name) ==
    /\ clock < MaxCalls
    /\ statusEffectNames' = AddStatusEffectList(statusEffectNames, name)
    /\ clock' = clock + 1
    /\ lastAdd' = [lastAdd EXCEPT ![name] = clock + 1]
    /\ lastStatus' = [op |-> "addStatusEffect", name |-> name, before |-> statusEffectNames]
    /\ UNCHANGED <<lastRemove, lastReset>>
    /\ UNCHANGED handlerVars

removeStatusEffect(name) ==
    /\ clock < MaxCalls
    /\ statusEffectNames' = RemoveStatusEffectList(statusEffectNames, name)
    /\ clock' = clock + 1
    /\ lastRemove' = [lastRemove EXCEPT ![name] = clock + 1]
    /\ lastStatus' = [op |-> "removeStatusEffect", name |-> name, before |-> statusEffectNames]
    /\ UNCHANGED <<lastAdd, lastReset>>
    /\ UNCHANGED handlerVars

resetStatusEffects ==
    /\ clock < MaxCalls
    /\ statusEffectNames' = DefaultStatusEffectNames
    /\ clock' = clock + 1
    /\ lastReset' = clock + 1
    /\ lastStatus' = [op |-> "resetStatusEffects", name |-> "", before |-> statusEffectNames]
    /\ UNCHANGED <<lastAdd, lastRemove>>
    /\ UNCHANGED handlerVars

\* The handler's part of the state when only the name list is exercised.
HandlerIdle ==
    /\ effects = [a \in Actors |-> <<>>]
    /\ last = NoCall
    /\ pc = [p \in Calls |-> "idle"]
    /\ call = [p \in Calls |-> NoCall]

StatusHistoryInit ==
    /\ clock = 0
    /\ lastAdd = [n \in Labels |-> 0]
    /\ lastRemove = [n \in Labels |-> 0]
    /\ lastReset = 0
    /\ lastStatus = [op |-> "none", name |-> "", before |-> <<>>]

\* The stored list is any list without duplicates.
InitStatus ==
    /\ statusEffectNames \in {s \in SeqsUpTo(Labels, Cardinality(Labels)) : NoDuplicates(s)}
    /\ StatusHistoryInit
    /\ HandlerIdle

\* The stored list is empty (a fresh world, or one just reset).
InitStatusEmpty ==
    /\ statusEffectNames = <<>>
    /\ StatusHistoryInit
    /\ HandlerIdle

NextStatus ==
    \/ \E name \in Labels : addStatusEffect(name)
    \/ \E name \in Labels : removeStatusEffect(name)
    \/ resetStatusEffects

SpecStatus == InitStatus /\ [][NextStatus]_vars

SpecStatusEmpty == InitStatusEmpty /\ [][NextStatus]_vars

\* ================================================================
\* The host's embedded collection of active effects
\* ================================================================

\* An active effect of the collection is [id, label, disabled].
ActiveEffect(id, data) == [id |-> id, label |-> data.label, disabled |-> data.disabled]

RECURSIVE SumLen(_, _)
SumLen(effs, S) ==
    IF S = {} THEN 0
    ELSE LET a == CHOOSE x \in S : TRUE IN Len(effs[a]) + SumLen(effs, S \ {a})

\* The number of active effects of all actors.
TotalEffects(effs) == SumLen(effs, Actors)

IdsOf(coll) == {coll[i].id : i \in 1 .. Len(coll)}

\* token.actor
TokenActor(uuid) == IF uuid = "t1" THEN "a1" ELSE "a2"

\* actor.createEmbeddedDocuments('ActiveEffect', [data]): the new effect,
\* under a fresh id, comes last in the collection.
HostCreate(effs, actor, data, id) ==
    [effs EXCEPT ![actor] = Append(effs[actor], ActiveEffect(id, data))]

\* actor.deleteEmbeddedDocuments('ActiveEffect', ids)
HostDelete(effs, actor, ids) ==
    [effs EXCEPT ![actor] = SelectSeq(effs[actor], LAMBDA e : e.id \notin ids)]

\* actor.updateEmbeddedDocuments('ActiveEffect', [data with _id]) and
\* activeEffect.update(data): the effect keeps its id and its place.
HostUpdate(effs, actor, id, data) ==
    [effs EXCEPT ![actor] =
        [i \in 1 .. Len(effs[actor]) |->
            IF effs[actor][i].id = id THEN ActiveEffect(id, data) ELSE effs[actor][i]]]

\* The outcomes of a create: one for every id the host can draw. The model
\* holds at most MaxEffects effects.
Created(effs, actor, data, res) ==
    IF TotalEffects(effs) >= MaxEffects THEN {}
    ELSE {[effs |-> HostCreate(effs, actor, data, id), res |-> res] :
             id \in EffectIds \ IdsOf(effs[actor])}

\* The outcome of a call that ends with the collection as it is.
Outcome(effs, res) == {[effs |-> effs, res |-> res]}

\* Array.prototype.find and a for-of loop with a break: the first of the
\* matching positions, 0 (undefined) when nothing matches.
FirstOf(positions) ==
    IF positions = {} THEN 0
    ELSE CHOOSE i \in positions : \A j \in positions : i <= j

\* A for-of loop without a break: the last of the matching positions, 0
\* when nothing matches.
LastOf(positions) ==
    IF positions = {} THEN 0
    ELSE CHOOSE i \in positions : \A j \in positions : j <= i

\* EffectSupport.convertToActiveEffectData(effect): the host's data of an
\* Effect; the label is the localized name of the Effect.
convertToActiveEffectData(effect) ==
    [label |-> i18n(effect.name), disabled |-> effect.isDisabled]

\* EffectSupport.convertActiveEffectToEffect(activeEffect)
convertActiveEffectToEffect(activeEffect) ==
    [name |-> activeEffect.label, isDisabled |-> activeEffect.disabled]

\* if (effectName) { effectName = i18n(effectName); }
Localized(effectName) == IF effectName # "" THEN i18n(effectName) ELSE effectName

\* ================================================================
\* The effect handler: lookups
\* ================================================================

\* hasEffectApplied(effectName, uuid): no localization of effectName.
hasEffectApplied(effs, effectName, uuid) ==
    \E i \in 1 .. Len(effs[uuid]) :
        isStringEquals(effs[uuid][i].label, effectName) /\ ~effs[uuid][i].disabled

\* _findEffectByName(effectName, actor): the loop has no break, the last
\* match wins.
findEffectByName(effs, effectName, actor) ==
    IF effectName = "" THEN 0
    ELSE LastOf({i \in 1 .. Len(effs[actor]) :
                    /\ effs[actor][i].label # ""
                    /\ isStringEquals(effs[actor][i].label, effectName)})

\* Mutant of findEffectByNameOnActor: a disabled effect is not found.
findEffectByNameOnActorEnabledOnly(effs, effectName, uuid) ==
    LET name == Localized(effectName)
    IN IF name = "" THEN 0
       ELSE FirstOf({i \in 1 .. Len(effs[uuid]) :
                     /\ effs[uuid][i].label # ""
                     /\ ~effs[uuid][i].disabled
                     /\ isStringEquals(effs[uuid][i].label, name)})

\* findEffectByNameOnActor(effectName, uuid): the position of the effect
\* found, 0 for undefined.
findEffectByNameOnActor(effs, effectName, uuid) ==
    LET name == Localized(effectName)
    IN IF name = "" THEN 0
       ELSE FirstOf({i \in 1 .. Len(effs[uuid]) :
                     /\ effs[uuid][i].label # ""
                     /\ isStringEquals(effs[uuid][i].label, name)})

\* Mutant of hasEffectAppliedOnActor: includeDisabled is ignored, a
\* disabled effect always counts.
hasEffectAppliedOnActorAlwaysDisabled(effs, effectName, uuid, includeDisabled) ==
    \E i \in 1 .. Len(effs[uuid]) :
        isStringEquals(effs[uuid][i].label, Localized(effectName))

\* hasEffectAppliedOnActor(effectName, uuid, includeDisabled)
hasEffectAppliedOnActor(effs, effectName, uuid, includeDisabled) ==
    LET name == Localized(effectName)
    IN \E i \in 1 .. Len(effs[uuid]) :
           IF includeDisabled
           THEN isStringEquals(effs[uuid][i].label, name)
           ELSE isStringEquals(effs[uuid][i].label, name) /\ ~effs[uuid][i].disabled

\* hasEffectAppliedFromIdOnActor(effectId, uuid, includeDisabled)
hasEffectAppliedFromIdOnActor(effs, effectId, uuid, includeDisabled) ==
    \E i \in 1 .. Len(effs[uuid]) :
        IF includeDisabled
        THEN effs[uuid][i].id = effectId
        ELSE effs[uuid][i].id = effectId /\ ~effs[uuid][i].disabled

\* Mutant of findEffectByNameOnToken: the loop has no break.
findEffectByNameOnTokenNoBreak(effs, effectName, uuid) ==
    LET name == Localized(effectName)
        actorEffects == effs[TokenActor(uuid)]
    IN IF name = "" THEN 0
       ELSE LastOf({i \in 1 .. Len(actorEffects) :
                     /\ actorEffects[i].label # ""
                     /\ isStringEquals(actorEffects[i].label, name)})

\* findEffectByNameOnToken(effectName, uuid)
findEffectByNameOnToken(effs, effectName, uuid) ==
    LET name == Localized(effectName)
        actorEffects == effs[TokenActor(uuid)]
    IN IF name = "" THEN 0
       ELSE FirstOf({i \in 1 .. Len(actorEffects) :
                     /\ actorEffects[i].label # ""
                     /\ isStringEquals(actorEffects[i].label, name)})

\* hasEffectAppliedOnToken(effectName, uuid, includeDisabled)
hasEffectAppliedOnToken(effs, effectName, uuid, includeDisabled) ==
    LET name == Localized(effectName)
        actorEffects == effs[TokenActor(uuid)]
    IN \E i \in 1 .. Len(actorEffects) :
           IF includeDisabled
           THEN isStringEquals(actorEffects[i].label, name)
           ELSE isStringEquals(actorEffects[i].label, name) /\ ~actorEffects[i].disabled

\* hasEffectAppliedFromIdOnToken(effectId, uuid, includeDisabled)
hasEffectAppliedFromIdOnToken(effs, effectId, uuid, includeDisabled) ==
    LET actorEffects == effs[TokenActor(uuid)]
    IN \E i \in 1 .. Len(actorEffects) :
           IF includeDisabled
           THEN actorEffects[i].id = effectId
           ELSE actorEffects[i].id = effectId /\ ~actorEffects[i].disabled

\* ================================================================
\* The effect handler: operations. Each is the set of its outcomes
\* [effs, res] on the collections effs: more than one only where the host
\* draws the id of a created effect.
\* ================================================================

\* The position of the effect with this id, 0 when there is none.
FindById(coll, effectId) == FirstOf({i \in 1 .. Len(coll) : coll[i].id = effectId})

\* The position of the first effect whose label is exactly this name.
FindByLabelStrict(coll, name) == FirstOf({i \in 1 .. Len(coll) : coll[i].label = name})

\* The position of the first effect whose label is this name ignoring case.
FindByLabel(coll, name) ==
    FirstOf({i \in 1 .. Len(coll) : isStringEquals(coll[i].label, name)})

\* removeEffect(effectName, uuid): the label is compared with ===, and
\* effectName is not localized.
removeEffect(effs, effectName, uuid) ==
    LET i == FindByLabelStrict(effs[uuid], effectName)
    IN IF i = 0 THEN Outcome(effs, "notfound")
       ELSE Outcome(HostDelete(effs, uuid, {effs[uuid][i].id}), "deleted")

\* addEffect(effectName, effectData, uuid, origin, overlay, metadata)
addEffect(effs, effectName, effectData, uuid) ==
    LET found == findEffectByName(effs, effectName, uuid)
        effect == IF found # 0 THEN convertActiveEffectToEffect(effs[uuid][found])
                  ELSE effectData
    IN IF effectData = Undefined THEN Outcome(effs, "error")
       ELSE IF findEffectByNameOnActor(effs, effectName, uuid) # 0
            THEN Outcome(effs, "blocked")
            ELSE Created(effs, uuid, convertToActiveEffectData(effect), "created")

\* toggleEffect(effectName, overlay, uuids, metadata, effectData): the uuids
\* in turn; an error of addEffect ends the call and keeps what was done.
RECURSIVE toggleEffect(_, _, _, _)
toggleEffect(effs, effectName, uuids, effectData) ==
    IF uuids = <<>> THEN Outcome(effs, "true")
    ELSE LET uuid == Head(uuids)
             step == IF hasEffectApplied(effs, effectName, uuid)
                     THEN removeEffect(effs, effectName, uuid)
                     ELSE addEffect(effs, effectName, effectData, uuid)
         IN UNION {IF o.res = "error" THEN {o}
                   ELSE toggleEffect(o.effs, effectName, Tail(uuids), effectData) :
                       o \in step}

\* removeEffectOnActor(effectName, uuid): effectName is localized, the label
\* is compared with ===.
removeEffectOnActor(effs, effectName, uuid) ==
    LET i == FindByLabelStrict(effs[uuid], Localized(effectName))
    IN IF i = 0 THEN Outcome(effs, "notfound")
       ELSE Outcome(HostDelete(effs, uuid, {effs[uuid][i].id}), "deleted")

\* removeEffectFromIdOnActor(effectId, uuid)
removeEffectFromIdOnActor(effs, effectId, uuid) ==
    IF effectId = NoId THEN Outcome(effs, "skipped")
    ELSE LET i == FindById(effs[uuid], effectId)
         IN IF i = 0 THEN Outcome(effs, "notfound")
            ELSE Outcome(HostDelete(effs, uuid, {effs[uuid][i].id}), "deleted")

\* addEffectOnActor(effectName, uuid, origin, overlay, effect): the name
\* looked for is effectName, the effect created is named by effect.
addEffectOnActor(effs, effectName, uuid, effect) ==
    IF effect = Undefined THEN Outcome(effs, "skipped")
    ELSE IF findEffectByNameOnActor(effs, effectName, uuid) # 0
         THEN Outcome(effs, "blocked")
         ELSE Created(effs, uuid, convertToActiveEffectData(effect), "created")

\* Mutant of the flag a toggle stores: without a force flag the effect is
\* enabled.
ToggledDisabledEnables(disabled, forceEnabled, forceDisabled) ==
    IF forceEnabled /\ disabled THEN FALSE
    ELSE IF forceDisabled /\ ~disabled THEN TRUE
    ELSE FALSE

\* The disabled flag a toggle stores.
ToggledDisabled(disabled, forceEnabled, forceDisabled) ==
    IF forceEnabled /\ disabled THEN FALSE
    ELSE IF forceDisabled /\ ~disabled THEN TRUE
    ELSE ~disabled

\* Mutant of the toggle: a force flag takes precedence over alwaysDelete.
ToggleAtForceFirst(effs, actor, i, alwaysDelete, forceEnabled, forceDisabled) ==
    LET e == effs[actor][i]
    IN IF alwaysDelete /\ ~forceEnabled /\ ~forceDisabled
       THEN Outcome(HostDelete(effs, actor, {e.id}), "deleted")
       ELSE Outcome(HostUpdate(effs, actor, e.id,
                        [label |-> e.label,
                         disabled |-> ToggledDisabled(e.disabled, forceEnabled, forceDisabled)]),
                    "updated")

\* The toggle of the effect at position i of the actor's collection.
ToggleAt(effs, actor, i, alwaysDelete, forceEnabled, forceDisabled) ==
    LET e == effs[actor][i]
    IN IF alwaysDelete THEN Outcome(HostDelete(effs, actor, {e.id}), "deleted")
       ELSE Outcome(HostUpdate(effs, actor, e.id,
                        [label |-> e.label,
                         disabled |-> ToggledDisabled(e.disabled, forceEnabled, forceDisabled)]),
                    "updated")

\* toggleEffectFromIdOnActor(effectId, uuid, alwaysDelete, forceEnabled,
\* forceDisabled): an id that no effect carries is not guarded against.
toggleEffectFromIdOnActor(effs, effectId, uuid, alwaysDelete, forceEnabled, forceDisabled) ==
    LET i == FindById(effs[uuid], effectId)
    IN IF i = 0 THEN Outcome(effs, "error")
       ELSE ToggleAt(effs, uuid, i, alwaysDelete, forceEnabled, forceDisabled)

\* addActiveEffectOnActor(uuid, activeEffectData): no look at the
\* collection before the create.
addActiveEffectOnActor(effs, uuid, activeEffectData) ==
    IF activeEffectData = Undefined THEN Outcome(effs, "skipped")
    ELSE Created(effs, uuid, activeEffectData, "created")

\* removeEffectOnToken(effectName, uuid)
removeEffectOnToken(effs, effectName, uuid) ==
    LET actor == TokenActor(uuid)
        i == FindByLabelStrict(effs[actor], Localized(effectName))
    IN IF i = 0 THEN Outcome(effs, "notfound")
       ELSE Outcome(HostDelete(effs, actor, {effs[actor][i].id}), "deleted")

\* removeEffectFromIdOnToken(effectId, uuid)
removeEffectFromIdOnToken(effs, effectId, uuid) ==
    LET actor == TokenActor(uuid)
        i == FindById(effs[actor], effectId)
    IN IF effectId = NoId THEN Outcome(effs, "skipped")
       ELSE IF i = 0 THEN Outcome(effs, "notfound")
            ELSE Outcome(HostDelete(effs, actor, {effs[actor][i].id}), "deleted")

\* removeEffectFromIdOnTokenMultiple(effectIds, uuid), effectIds an array:
\* the ids that effects of the actor carry are deleted in one host call.
removeEffectFromIdOnTokenMultiple(effs, effectIds, uuid) ==
    LET actor == TokenActor(uuid)
    IN Outcome(HostDelete(effs, actor, effectIds \cap IdsOf(effs[actor])), "deleted")

\* addEffectOnToken(effectName, uuid, origin, overlay, effect)
addEffectOnToken(effs, effectName, uuid, effect) ==
    IF effect = Undefined THEN Outcome(effs, "skipped")
    ELSE IF findEffectByNameOnToken(effs, effectName, uuid) # 0
         THEN Outcome(effs, "blocked")
         ELSE Created(effs, TokenActor(uuid), convertToActiveEffectData(effect), "created")

\* Mutant of toggleEffectFromIdOnToken: an id that no effect carries is not
\* guarded against.
toggleEffectFromIdOnTokenUnguarded(effs, effectId, uuid, alwaysDelete, forceEnabled, forceDisabled) ==
    LET actor == TokenActor(uuid)
        i == FindById(effs[actor], effectId)
    IN IF i = 0 THEN Outcome(effs, "error")
       ELSE ToggleAt(effs, actor, i, alwaysDelete, forceEnabled, forceDisabled)

\* toggleEffectFromIdOnToken(effectId, uuid, alwaysDelete, forceEnabled,
\* forceDisabled)
toggleEffectFromIdOnToken(effs, effectId, uuid, alwaysDelete, forceEnabled, forceDisabled) ==
    LET actor == TokenActor(uuid)
        i == FindById(effs[actor], effectId)
    IN IF i = 0 THEN Outcome(effs, "notfound")
       ELSE ToggleAt(effs, actor, i, alwaysDelete, forceEnabled, forceDisabled)

\* toggleEffectFromDataOnToken(effect, uuid, alwaysDelete, forceEnabled,
\* forceDisabled): the first effect with the custom id or with the name of
\* effect.
toggleEffectFromDataOnToken(effs, effect, uuid, alwaysDelete, forceEnabled, forceDisabled) ==
    LET actor == TokenActor(uuid)
        i == FirstOf({k \in 1 .. Len(effs[actor]) :
                 \/ effect.customId # NoId /\ effs[actor][k].id = effect.customId
                 \/ isStringEquals(effs[actor][k].label, effect.name)})
    IN IF i = 0 THEN Outcome(effs, "notfound")
       ELSE ToggleAt(effs, actor, i, alwaysDelete, forceEnabled, forceDisabled)

\* addActiveEffectOnToken(uuid, activeEffectData)
addActiveEffectOnToken(effs, uuid, activeEffectData) ==
    IF activeEffectData = Undefined THEN Outcome(effs, "skipped")
    ELSE Created(effs, TokenActor(uuid), activeEffectData, "created")

\* updateEffectFromIdOnToken(effectId, uuid, origin, overlay, effectUpdated)
updateEffectFromIdOnToken(effs, effectId, uuid, effectUpdated) ==
    LET actor == TokenActor(uuid)
        i == FindById(effs[actor], effectId)
    IN IF i = 0 THEN Outcome(effs, "notfound")
       ELSE Outcome(HostUpdate(effs, actor, effs[actor][i].id,
                        convertToActiveEffectData(effectUpdated)), "updated")

\* updateEffectFromNameOnToken(effectName, uuid, origin, overlay, effectUpdated)
updateEffectFromNameOnToken(effs, effectName, uuid, effectUpdated) ==
    LET actor == TokenActor(uuid)
        i == FindByLabel(effs[actor], effectName)
    IN IF i = 0 THEN Outcome(effs, "notfound")
       ELSE Outcome(HostUpdate(effs, actor, effs[actor][i].id,
                        convertToActiveEffectData(effectUpdated)), "updated")

\* updateActiveEffectFromIdOnToken(effectId, uuid, origin, overlay, effectUpdated)
updateActiveEffectFromIdOnToken(effs, effectId, uuid, effectUpdated) ==
    LET actor == TokenActor(uuid)
        i == FindById(effs[actor], effectId)
    IN IF i = 0 THEN Outcome(effs, "notfound")
       ELSE Outcome(HostUpdate(effs, actor, effs[actor][i].id, effectUpdated), "updated")

\* updateActiveEffectFromNameOnToken(effectName, uuid, origin, overlay, effectUpdated)
updateActiveEffectFromNameOnToken(effs, effectName, uuid, effectUpdated) ==
    LET actor == TokenActor(uuid)
        i == FindByLabel(effs[actor], effectName)
    IN IF i = 0 THEN Outcome(effs, "notfound")
       ELSE Outcome(HostUpdate(effs, actor, effs[actor][i].id, effectUpdated), "updated")

\* ================================================================
\* The positional-array variants: XArr(...inAttributes) takes the
\* arguments of X as one array and hands them on.
\* ================================================================

\* An ActiveEffectData read by code that expects an Effect has no name and
\* no isDisabled: the data converted from it carries no label, so the host
\* keeps the label of activeEffect, and a disabled flag that is absent
\* (kept) or false. The Effects that convert to those data.
ReadAsEffect(activeEffect) ==
    {[name |-> activeEffect.label, isDisabled |-> d] : d \in {activeEffect.disabled, FALSE}}

\* toggleEffectArr(...inAttributes): [effectName, overlay, uuids, metadata, effectData]
toggleEffectArr(effs, inAttributes) ==
    toggleEffect(effs, inAttributes[1], inAttributes[3], inAttributes[5])

\* hasEffectAppliedArr(...inAttributes): [effectName, uuid]
hasEffectAppliedArr(effs, inAttributes) ==
    Outcome(effs, hasEffectApplied(effs, inAttributes[1], inAttributes[2]))

\* removeEffectArr(...inAttributes): [effectName, uuid]
removeEffectArr(effs, inAttributes) ==
    removeEffect(effs, inAttributes[1], inAttributes[2])

\* addEffectArr(...inAttributes): [effectName, effectData, uuid, origin, overlay, metadata]
addEffectArr(effs, inAttributes) ==
    addEffect(effs, inAttributes[1], inAttributes[2], inAttributes[3])

\* findEffectByNameOnActorArr(...inAttributes): [effectName, uuid]
findEffectByNameOnActorArr(effs, inAttributes) ==
    Outcome(effs, findEffectByNameOnActor(effs, inAttributes[1], inAttributes[2]))

\* hasEffectAppliedOnActorArr(...inAttributes): [effectName, uuid, includeDisabled]
hasEffectAppliedOnActorArr(effs, inAttributes) ==
    Outcome(effs, hasEffectAppliedOnActor(effs, inAttributes[1], inAttributes[2], inAttributes[3]))

\* hasEffectAppliedFromIdOnActorArr(...inAttributes): [effectId, uuid, includeDisabled]
hasEffectAppliedFromIdOnActorArr(effs, inAttributes) ==
    Outcome(effs, hasEffectAppliedFromIdOnActor(effs, inAttributes[1], inAttributes[2], inAttributes[3]))

\* removeEffectOnActorArr(...inAttributes): [effectName, uuid]
removeEffectOnActorArr(effs, inAttributes) ==
    removeEffectOnActor(effs, inAttributes[1], inAttributes[2])

\* removeEffectFromIdOnActorArr(...inAttributes): [effectId, uuid]
removeEffectFromIdOnActorArr(effs, inAttributes) ==
    removeEffectFromIdOnActor(effs, inAttributes[1], inAttributes[2])

\* addEffectOnActorArr(...inAttributes): [effectName, uuid, origin, overlay, effect]
addEffectOnActorArr(effs, inAttributes) ==
    addEffectOnActor(effs, inAttributes[1], inAttributes[2], inAttributes[5])

\* toggleEffectFromIdOnActorArr(...inAttributes): [effectId, uuid, alwaysDelete, forceEnabled, forceDisabled]
toggleEffectFromIdOnActorArr(effs, inAttributes) ==
    toggleEffectFromIdOnActor(effs, inAttributes[1], inAttributes[2], inAttributes[3], inAttributes[4], inAttributes[5])

\* addActiveEffectOnActorArr(...inAttributes): [uuid, activeEffectData]
addActiveEffectOnActorArr(effs, inAttributes) ==
    addActiveEffectOnActor(effs, inAttributes[1], inAttributes[2])

\* findEffectByNameOnTokenArr(...inAttributes): [effectName, uuid]
findEffectByNameOnTokenArr(effs, inAttributes) ==
    Outcome(effs, findEffectByNameOnToken(effs, inAttributes[1], inAttributes[2]))

\* hasEffectAppliedOnTokenArr(...inAttributes): [effectName, uuid, includeDisabled]
hasEffectAppliedOnTokenArr(effs, inAttributes) ==
    Outcome(effs, hasEffectAppliedOnToken(effs, inAttributes[1], inAttributes[2], inAttributes[3]))

\* hasEffectAppliedFromIdOnTokenArr(...inAttributes): [effectId, uuid, includeDisabled]
hasEffectAppliedFromIdOnTokenArr(effs, inAttributes) ==
    Outcome(effs, hasEffectAppliedFromIdOnToken(effs, inAttributes[1], inAttributes[2], inAttributes[3]))

\* removeEffectOnTokenArr(...inAttributes): [effectName, uuid]
removeEffectOnTokenArr(effs, inAttributes) ==
    removeEffectOnToken(effs, inAttributes[1], inAttributes[2])

\* removeEffectFromIdOnTokenArr(...inAttributes): [effectId, uuid]
removeEffectFromIdOnTokenArr(effs, inAttributes) ==
    removeEffectFromIdOnToken(effs, inAttributes[1], inAttributes[2])

\* removeEffectFromIdOnTokenMultipleArr(...inAttributes): [effectIds, uuid]
removeEffectFromIdOnTokenMultipleArr(effs, inAttributes) ==
    removeEffectFromIdOnTokenMultiple(effs, inAttributes[1], inAttributes[2])

\* addEffectOnTokenArr(...inAttributes): [effectName, uuid, origin, overlay, effect]
addEffectOnTokenArr(effs, inAttributes) ==
    addEffectOnToken(effs, inAttributes[1], inAttributes[2], inAttributes[5])

\* toggleEffectFromIdOnTokenArr(...inAttributes): [effectId, uuid, alwaysDelete, forceEnabled, forceDisabled]
toggleEffectFromIdOnTokenArr(effs, inAttributes) ==
    toggleEffectFromIdOnToken(effs, inAttributes[1], inAttributes[2], inAttributes[3], inAttributes[4], inAttributes[5])

\* addActiveEffectOnTokenArr(...inAttributes): [uuid, activeEffectData]
addActiveEffectOnTokenArr(effs, inAttributes) ==
    addActiveEffectOnToken(effs, inAttributes[1], inAttributes[2])

\* updateEffectFromIdOnTokenArr(...inAttributes): [effectId, uuid, origin, overlay, effectUpdated]
updateEffectFromIdOnTokenArr(effs, inAttributes) ==
    updateEffectFromIdOnToken(effs, inAttributes[1], inAttributes[2], inAttributes[5])

\* updateEffectFromNameOnTokenArr(...inAttributes): [effectName, uuid, origin, overlay, effectUpdated]
updateEffectFromNameOnTokenArr(effs, inAttributes) ==
    updateEffectFromNameOnToken(effs, inAttributes[1], inAttributes[2], inAttributes[5])

\* updateActiveEffectFromIdOnTokenArr(...inAttributes): [effectId, uuid, origin, overlay, effectUpdated]
updateActiveEffectFromIdOnTokenArr(effs, inAttributes) ==
    updateActiveEffectFromIdOnToken(effs, inAttributes[1], inAttributes[2], inAttributes[5])

\* updateActiveEffectFromNameOnTokenArr(...inAttributes): [effectName, uuid,
\* origin, overlay, effectUpdated]. The call goes to
\* updateEffectFromNameOnToken, which reads the ActiveEffectData it is
\* handed as an Effect.
updateActiveEffectFromNameOnTokenArr(effs, inAttributes) ==
    LET actor == TokenActor(inAttributes[2])
        i == FindByLabel(effs[actor], inAttributes[1])
    IN IF i = 0 THEN Outcome(effs, "notfound")
       ELSE UNION {updateEffectFromNameOnToken(effs, inAttributes[1], inAttributes[2], e) :
                 e \in ReadAsEffect(effs[actor][i])}

\* ================================================================
\* The handler's operations run one at a time: each call completes, host
\* call included, before the next starts.
\* ================================================================

\* What a caller can pass as an effect id.
IdArgs == EffectIds \cup {NoId}

\* The uuid lists of toggleEffect.
UuidLists == SeqsUpTo(Actors, 2)

\* The Effect a caller passes to toggleEffectFromDataOnToken.
EffectsWithId == [name : Labels, customId : IdArgs]

StatusIdle ==
    /\ statusEffectNames = <<>>
    /\ clock = 0
    /\ lastAdd = [n \in Labels |-> 0]
    /\ lastRemove = [n \in Labels |-> 0]
    /\ lastReset = 0
    /\ lastStatus = [op |-> "none", name |-> "", before |-> <<>>]

\* A call of the handler completes with one of its outcomes.
Completes(op, outcomes) ==
    /\ \A p \in Calls : pc[p] = "idle"
    /\ \E o \in outcomes : effects' = o.effs
    /\ UNCHANGED <<last, pc, call>>
    /\ UNCHANGED statusVars

CallToggleEffect ==
    \E effectName \in EffectNames, uuids \in UuidLists, effectData \in Effects \cup {Undefined} :
        Completes("toggleEffect", toggleEffect(effects, effectName, uuids, effectData))

CallRemoveEffect ==
    \E effectName \in EffectNames, uuid \in Actors :
        Completes("removeEffect", removeEffect(effects, effectName, uuid))

CallAddEffect ==
    \E effectName \in EffectNames, uuid \in Actors, effectData \in Effects \cup {Undefined} :
        Completes("addEffect", addEffect(effects, effectName, effectData, uuid))

CallRemoveEffectOnActor ==
    \E effectName \in EffectNames, uuid \in Actors :
        Completes("removeEffectOnActor", removeEffectOnActor(effects, effectName, uuid))

CallRemoveEffectFromIdOnActor ==
    \E effectId \in IdArgs, uuid \in Actors :
        Completes("removeEffectFromIdOnActor", removeEffectFromIdOnActor(effects, effectId, uuid))

CallAddEffectOnActor ==
    \E effectName \in EffectNames, uuid \in Actors, effect \in Effects \cup {Undefined} :
        Completes("addEffectOnActor", addEffectOnActor(effects, effectName, uuid, effect))

CallToggleEffectFromIdOnActor ==
    \E effectId \in IdArgs, uuid \in Actors, alwaysDelete, forceEnabled, forceDisabled \in BOOLEAN :
        Completes("toggleEffectFromIdOnActor",
                  toggleEffectFromIdOnActor(effects, effectId, uuid, alwaysDelete,
                                            forceEnabled, forceDisabled))

CallAddActiveEffectOnActor ==
    \E uuid \in Actors, activeEffectData \in ActiveEffectDatas \cup {Undefined} :
        Completes("addActiveEffectOnActor", addActiveEffectOnActor(effects, uuid, activeEffectData))

CallRemoveEffectOnToken ==
    \E effectName \in EffectNames, uuid \in Tokens :
        Completes("removeEffectOnToken", removeEffectOnToken(effects, effectName, uuid))

CallRemoveEffectFromIdOnToken ==
    \E effectId \in IdArgs, uuid \in Tokens :
        Completes("removeEffectFromIdOnToken", removeEffectFromIdOnToken(effects, effectId, uuid))

CallRemoveEffectFromIdOnTokenMultiple ==
    \E effectIds \in SUBSET EffectIds, uuid \in Tokens :
        Completes("removeEffectFromIdOnTokenMultiple",
                  removeEffectFromIdOnTokenMultiple(effects, effectIds, uuid))

CallAddEffectOnToken ==
    \E effectName \in EffectNames, uuid \in Tokens, effect \in Effects \cup {Undefined} :
        Completes("addEffectOnToken", addEffectOnToken(effects, effectName, uuid, effect))

CallToggleEffectFromIdOnToken ==
    \E effectId \in IdArgs, uuid \in Tokens, alwaysDelete, forceEnabled, forceDisabled \in BOOLEAN :
        Completes("toggleEffectFromIdOnToken",
                  toggleEffectFromIdOnToken(effects, effectId, uuid, alwaysDelete,
                                            forceEnabled, forceDisabled))

CallToggleEffectFromDataOnToken ==
    \E effect \in EffectsWithId, uuid \in Tokens, alwaysDelete, forceEnabled, forceDisabled \in BOOLEAN :
        Completes("toggleEffectFromDataOnToken",
                  toggleEffectFromDataOnToken(effects, effect, uuid, alwaysDelete,
                                              forceEnabled, forceDisabled))

CallAddActiveEffectOnToken ==
    \E uuid \in Tokens, activeEffectData \in ActiveEffectDatas \cup {Undefined} :
        Completes("addActiveEffectOnToken", addActiveEffectOnToken(effects, uuid, activeEffectData))

CallUpdateEffectFromIdOnToken ==
    \E effectId \in IdArgs, uuid \in Tokens, effectUpdated \in Effects :
        Completes("updateEffectFromIdOnToken",
                  updateEffectFromIdOnToken(effects, effectId, uuid, effectUpdated))

CallUpdateEffectFromNameOnToken ==
    \E effectName \in EffectNames, uuid \in Tokens, effectUpdated \in Effects :
        Completes("updateEffectFromNameOnToken",
                  updateEffectFromNameOnToken(effects, effectName, uuid, effectUpdated))

CallUpdateActiveEffectFromIdOnToken ==
    \E effectId \in IdArgs, uuid \in Tokens, effectUpdated \in ActiveEffectDatas :
        Completes("updateActiveEffectFromIdOnToken",
                  updateActiveEffectFromIdOnToken(effects, effectId, uuid, effectUpdated))

CallUpdateActiveEffectFromNameOnToken ==
    \E effectName \in EffectNames, uuid \in Tokens, effectUpdated \in ActiveEffectDatas :
        Completes("updateActiveEffectFromNameOnToken",
                  updateActiveEffectFromNameOnToken(effects, effectName, uuid, effectUpdated))

\* A world whose actors hold no active effect yet.
Init ==
    /\ effects = [a \in Actors |-> <<>>]
    /\ last = NoCall
    /\ pc = [p \in Calls |-> "idle"]
    /\ call = [p \in Calls |-> NoCall]
    /\ StatusIdle

Next ==
    \/ CallToggleEffect
    \/ CallRemoveEffect
    \/ CallAddEffect
    \/ CallRemoveEffectOnActor
    \/ CallRemoveEffectFromIdOnActor
    \/ CallAddEffectOnActor
    \/ CallToggleEffectFromIdOnActor
    \/ CallAddActiveEffectOnActor
    \/ CallRemoveEffectOnToken
    \/ CallRemoveEffectFromIdOnToken
    \/ CallRemoveEffectFromIdOnTokenMultiple
    \/ CallAddEffectOnToken
    \/ CallToggleEffectFromIdOnToken
    \/ CallToggleEffectFromDataOnToken
    \/ CallAddActiveEffectOnToken
    \/ CallUpdateEffectFromIdOnToken
    \/ CallUpdateEffectFromNameOnToken
    \/ CallUpdateActiveEffectFromIdOnToken
    \/ CallUpdateActiveEffectFromNameOnToken

Spec == Init /\ [][Next]_vars

\* ================================================================
\* One observed call. The world is any state the operations above reach;
\* one call of the handler runs to completion, and its name, arguments,
\* result and the collections it found are kept in last.
\* ================================================================

\* The active effects a collection can hold.
ActiveEffects == [id : EffectIds, label : Labels, disabled : BOOLEAN]

\* The collections of n effects: no two effects of an actor share an id.
Collections(n) ==
    {c \in [1 .. n -> ActiveEffects] : \A i, j \in 1 .. n : i # j => c[i].id # c[j].id}

\* No two active effects of an actor carry the same display name.
NoDuplicateNames(effs) ==
    \A a \in Actors :
        \A i, j \in 1 .. Len(effs[a]) : i # j => effs[a][i].label # effs[a][j].label

\* The worlds: what "a1" and "a2" hold, MaxEffects effects at most.
Worlds ==
    {[a \in Actors |-> IF a = "a1" THEN w[1] ELSE w[2]] :
        w \in UNION {Collections(n[1]) \X Collections(n[2]) :
                        n \in {m \in (0 .. MaxEffects) \X (0 .. MaxEffects) :
                                  m[1] + m[2] <= MaxEffects}}}

InitWorlds ==
    /\ effects \in Worlds
    /\ last = NoCall
    /\ pc = [p \in Calls |-> "idle"]
    /\ call = [p \in Calls |-> NoCall]
    /\ StatusIdle

\* The observed call op(args) completes with one of its outcomes.
Observed(op, args, outcomes) ==
    /\ last = NoCall
    /\ \E o \in outcomes :
          /\ effects' = o.effs
          /\ last' = [op |-> op, args |-> args, res |-> o.res, before |-> effects]
    /\ UNCHANGED <<pc, call>>
    /\ UNCHANGED statusVars

\* The observed lookup op(args) returns res.
Looked(op, args, res) ==
    /\ last = NoCall
    /\ last' = [op |-> op, args |-> args, res |-> res, before |-> effects]
    /\ UNCHANGED <<effects, pc, call>>
    /\ UNCHANGED statusVars

\* ---- lookups by name

\* What a caller passes as includeDisabled; the parameter defaults to false.
IncludeDisabledArgs == {"true", "false", "omitted"}

\* includeDisabled = false in the parameter list.
IncludeDisabled(arg) == arg = "true"

LookHasEffectAppliedOnActor ==
    \E effectName \in EffectNames, uuid \in Actors, includeDisabled \in IncludeDisabledArgs :
        Looked("hasEffectAppliedOnActor",
               [effectName |-> effectName, actor |-> uuid, includeDisabled |-> includeDisabled],
               hasEffectAppliedOnActor(effects, effectName, uuid, IncludeDisabled(includeDisabled)))

LookHasEffectAppliedOnToken ==
    \E effectName \in EffectNames, uuid \in Tokens, includeDisabled \in IncludeDisabledArgs :
        Looked("hasEffectAppliedOnToken",
               [effectName |-> effectName, actor |-> TokenActor(uuid),
                includeDisabled |-> includeDisabled],
               hasEffectAppliedOnToken(effects, effectName, uuid, IncludeDisabled(includeDisabled)))

NextLookup ==
    \/ LookHasEffectAppliedOnActor
    \/ LookHasEffectAppliedOnToken

SpecLookup == InitWorlds /\ [][NextLookup]_vars

\* ---- additions by name

ObserveAddEffectOnActor ==
    /\ last = NoCall
    /\ \E effectName \in EffectNames, uuid \in Actors, effect \in Effects \cup {Undefined} :
           Observed("addEffectOnActor",
                    [effectName |-> effectName, actor |-> uuid, effect |-> effect],
                    addEffectOnActor(effects, effectName, uuid, effect))

ObserveAddEffectOnToken ==
    /\ last = NoCall
    /\ \E effectName \in EffectNames, uuid \in Tokens, effect \in Effects \cup {Undefined} :
           Observed("addEffectOnToken",
                    [effectName |-> effectName, actor |-> TokenActor(uuid), effect |-> effect],
                    addEffectOnToken(effects, effectName, uuid, effect))

NextAdd ==
    \/ ObserveAddEffectOnActor
    \/ ObserveAddEffectOnToken

SpecAdd == InitWorlds /\ [][NextAdd]_vars

\* ---- removals by name

ObserveRemoveEffectOnActor ==
    \E effectName \in EffectNames, uuid \in Actors :
        Observed("removeEffectOnActor", [effectName |-> effectName, actor |-> uuid],
                 removeEffectOnActor(effects, effectName, uuid))

ObserveRemoveEffectOnToken ==
    \E effectName \in EffectNames, uuid \in Tokens :
        Observed("removeEffectOnToken", [effectName |-> effectName, actor |-> TokenActor(uuid)],
                 removeEffectOnToken(effects, effectName, uuid))

NextRemove ==
    \/ ObserveRemoveEffectOnActor
    \/ ObserveRemoveEffectOnToken

SpecRemove == InitWorlds /\ [][NextRemove]_vars

\* ---- toggleEffect

ObserveToggleEffect ==
    \E effectName \in EffectNames, uuids \in UuidLists, effectData \in Effects \cup {Undefined} :
        Observed("toggleEffect",
                 [effectName |-> effectName, uuids |-> uuids, effectData |-> effectData],
                 toggleEffect(effects, effectName, uuids, effectData))

NextToggleEffect == ObserveToggleEffect

SpecToggleEffect == InitWorlds /\ [][NextToggleEffect]_vars

\* ---- the toggles of one effect

ToggleArgs(effectId, effect, actor, alwaysDelete, forceEnabled, forceDisabled) ==
    [effectId |-> effectId, effect |-> effect, actor |-> actor, alwaysDelete |-> alwaysDelete,
     forceEnabled |-> forceEnabled, forceDisabled |-> forceDisabled]

\* The Effect of a call that names the effect by its id alone.
NoEffect == [name |-> "", customId |-> NoId]

ObserveToggleEffectFromIdOnActor ==
    /\ last = NoCall
    /\ \E effectId \in IdArgs, uuid \in Actors, alwaysDelete, forceEnabled, forceDisabled \in BOOLEAN :
           Observed("toggleEffectFromIdOnActor",
                    ToggleArgs(effectId, NoEffect, uuid, alwaysDelete, forceEnabled, forceDisabled),
                    toggleEffectFromIdOnActor(effects, effectId, uuid, alwaysDelete,
                                              forceEnabled, forceDisabled))

ObserveToggleEffectFromIdOnToken ==
    /\ last = NoCall
    /\ \E effectId \in IdArgs, uuid \in Tokens, alwaysDelete, forceEnabled, forceDisabled \in BOOLEAN :
           Observed("toggleEffectFromIdOnToken",
                    ToggleArgs(effectId, NoEffect, TokenActor(uuid), alwaysDelete, forceEnabled,
                               forceDisabled),
                    toggleEffectFromIdOnToken(effects, effectId, uuid, alwaysDelete,
                                              forceEnabled, forceDisabled))

ObserveToggleEffectFromDataOnToken ==
    /\ last = NoCall
    /\ \E effect \in EffectsWithId, uuid \in Tokens, alwaysDelete, forceEnabled, forceDisabled \in BOOLEAN :
           Observed("toggleEffectFromDataOnToken",
                    ToggleArgs(NoId, effect, TokenActor(uuid), alwaysDelete, forceEnabled,
                               forceDisabled),
                    toggleEffectFromDataOnToken(effects, effect, uuid, alwaysDelete,
                                                forceEnabled, forceDisabled))

NextToggle ==
    \/ ObserveToggleEffectFromIdOnActor
    \/ ObserveToggleEffectFromIdOnToken
    \/ ObserveToggleEffectFromDataOnToken

SpecToggle == InitWorlds /\ [][NextToggle]_vars

\* ---- two toggles of one effect, one after the other: last is the first
\* call, call[1] the second.

FirstToggleEffectFromIdOnActor ==
    /\ last = NoCall
    /\ \E effectId \in IdArgs, uuid \in Actors :
           Observed("toggleEffectFromIdOnActor",
                    ToggleArgs(effectId, NoEffect, uuid, FALSE, FALSE, FALSE),
                    toggleEffectFromIdOnActor(effects, effectId, uuid, FALSE, FALSE, FALSE))

FirstToggleEffectFromIdOnToken ==
    /\ last = NoCall
    /\ \E effectId \in IdArgs, uuid \in Tokens :
           Observed("toggleEffectFromIdOnToken",
                    ToggleArgs(effectId, NoEffect, TokenActor(uuid), FALSE, FALSE, FALSE),
                    toggleEffectFromIdOnToken(effects, effectId, uuid, FALSE, FALSE, FALSE))

\* The second call op, on the effect id and the actor of the first,
\* completes with one of its outcomes.
ObservedSecond(op, outcomes) ==
    /\ last # NoCall
    /\ call[1].op = "none"
    /\ \E o \in outcomes :
          /\ effects' = o.effs
          /\ call' = [call EXCEPT ![1] = [op |-> op, res |-> o.res, before |-> effects]]
    /\ UNCHANGED <<last, pc>>
    /\ UNCHANGED statusVars

SecondToggleEffectFromIdOnActor ==
    /\ last # NoCall
    /\ \E uuid \in Actors :
           /\ uuid = last.args.actor
           /\ ObservedSecond("toggleEffectFromIdOnActor",
                  toggleEffectFromIdOnActor(effects, last.args.effectId, uuid,
                                            FALSE, FALSE, FALSE))

SecondToggleEffectFromIdOnToken ==
    /\ last # NoCall
    /\ \E uuid \in Tokens :
           /\ TokenActor(uuid) = last.args.actor
           /\ ObservedSecond("toggleEffectFromIdOnToken",
                  toggleEffectFromIdOnToken(effects, last.args.effectId, uuid,
                                            FALSE, FALSE, FALSE))

NextToggleTwice ==
    \/ FirstToggleEffectFromIdOnActor
    \/ FirstToggleEffectFromIdOnToken
    \/ SecondToggleEffectFromIdOnActor
    \/ SecondToggleEffectFromIdOnToken

SpecToggleTwice == InitWorlds /\ [][NextToggleTwice]_vars

\* ---- searches by name. The host stores the label it is handed, an empty
\* label included, so the collections searched may hold effects without a
\* name.

UnnamedOrNamed == [id : EffectIds, label : Labels \cup {""}, disabled : BOOLEAN]

SearchedCollections(n) ==
    {c \in [1 .. n -> UnnamedOrNamed] : \A i, j \in 1 .. n : i # j => c[i].id # c[j].id}

SearchedWorlds ==
    {[a \in Actors |-> IF a = "a1" THEN w[1] ELSE w[2]] :
        w \in UNION {SearchedCollections(n[1]) \X SearchedCollections(n[2]) :
                        n \in {m \in (0 .. MaxEffects) \X (0 .. MaxEffects) :
                                  m[1] + m[2] <= MaxEffects}}}

InitSearched ==
    /\ effects \in SearchedWorlds
    /\ last = NoCall
    /\ pc = [p \in Calls |-> "idle"]
    /\ call = [p \in Calls |-> NoCall]
    /\ StatusIdle

LookFindEffectByNameOnActor ==
    /\ last = NoCall
    /\ \E effectName \in EffectNames, uuid \in Actors :
           Looked("findEffectByNameOnActor", [effectName |-> effectName, actor |-> uuid],
                  findEffectByNameOnActor(effects, effectName, uuid))

LookFindEffectByNameOnToken ==
    /\ last = NoCall
    /\ \E effectName \in EffectNames, uuid \in Tokens :
           Looked("findEffectByNameOnToken",
                  [effectName |-> effectName, actor |-> TokenActor(uuid)],
                  findEffectByNameOnToken(effects, effectName, uuid))

NextFind ==
    \/ LookFindEffectByNameOnActor
    \/ LookFindEffectByNameOnToken

SpecFind == InitSearched /\ [][NextFind]_vars

\* The adds by name on actors that may hold unnamed effects.
SpecAddUnnamed == InitSearched /\ [][NextAdd]_vars

\* ---- the queries, observed

\* Mutant of QueryFindEffectByNameOnActor: the effect that is found is taken
\* out of the collection.
QueryFindEffectByNameOnActorTaking ==
    /\ last = NoCall
    /\ \E effectName \in EffectNames, uuid \in Actors :
           Observed("findEffectByNameOnActor", [effectName |-> effectName, uuid |-> uuid],
                    LET i == findEffectByNameOnActor(effects, effectName, uuid)
                    IN Outcome(IF i = 0 THEN effects
                               ELSE HostDelete(effects, uuid, {effects[uuid][i].id}), i))

QueryFindEffectByNameOnActor ==
    /\ last = NoCall
    /\ \E effectName \in EffectNames, uuid \in Actors :
           Observed("findEffectByNameOnActor", [effectName |-> effectName, uuid |-> uuid],
                    Outcome(effects, findEffectByNameOnActor(effects, effectName, uuid)))

QueryFindEffectByNameOnToken ==
    /\ last = NoCall
    /\ \E effectName \in EffectNames, uuid \in Tokens :
           Observed("findEffectByNameOnToken", [effectName |-> effectName, uuid |-> uuid],
                    Outcome(effects, findEffectByNameOnToken(effects, effectName, uuid)))

QueryHasEffectApplied ==
    /\ last = NoCall
    /\ \E effectName \in EffectNames, uuid \in Actors :
           Observed("hasEffectApplied", [effectName |-> effectName, uuid |-> uuid],
                    Outcome(effects, hasEffectApplied(effects, effectName, uuid)))

QueryHasEffectAppliedOnActor ==
    /\ last = NoCall
    /\ \E effectName \in EffectNames, uuid \in Actors, includeDisabled \in BOOLEAN :
           Observed("hasEffectAppliedOnActor",
                    [effectName |-> effectName, uuid |-> uuid, includeDisabled |-> includeDisabled],
                    Outcome(effects, hasEffectAppliedOnActor(effects, effectName, uuid, includeDisabled)))

QueryHasEffectAppliedOnToken ==
    /\ last = NoCall
    /\ \E effectName \in EffectNames, uuid \in Tokens, includeDisabled \in BOOLEAN :
           Observed("hasEffectAppliedOnToken",
                    [effectName |-> effectName, uuid |-> uuid, includeDisabled |-> includeDisabled],
                    Outcome(effects, hasEffectAppliedOnToken(effects, effectName, uuid, includeDisabled)))

QueryHasEffectAppliedFromIdOnActor ==
    /\ last = NoCall
    /\ \E effectId \in EffectIds, uuid \in Actors, includeDisabled \in BOOLEAN :
           Observed("hasEffectAppliedFromIdOnActor",
                    [effectId |-> effectId, uuid |-> uuid, includeDisabled |-> includeDisabled],
                    Outcome(effects, hasEffectAppliedFromIdOnActor(effects, effectId, uuid, includeDisabled)))

QueryHasEffectAppliedFromIdOnToken ==
    /\ last = NoCall
    /\ \E effectId \in EffectIds, uuid \in Tokens, includeDisabled \in BOOLEAN :
           Observed("hasEffectAppliedFromIdOnToken",
                    [effectId |-> effectId, uuid |-> uuid, includeDisabled |-> includeDisabled],
                    Outcome(effects, hasEffectAppliedFromIdOnToken(effects, effectId, uuid, includeDisabled)))

QueryOps ==
    {"hasEffectApplied", "hasEffectAppliedOnActor", "hasEffectAppliedOnToken",
     "hasEffectAppliedFromIdOnActor", "hasEffectAppliedFromIdOnToken",
     "findEffectByNameOnActor", "findEffectByNameOnToken"}

NextQuery ==
    \/ QueryHasEffectApplied
    \/ QueryHasEffectAppliedOnActor
    \/ QueryHasEffectAppliedOnToken
    \/ QueryHasEffectAppliedFromIdOnActor
    \/ QueryHasEffectAppliedFromIdOnToken
    \/ QueryFindEffectByNameOnActor
    \/ QueryFindEffectByNameOnToken

SpecQuery == InitSearched /\ [][NextQuery]_vars

\* ---- hasEffectApplied on actors that hold convenient and other effects

\* An active effect with activeEffect.data.flags.isConvenient: set on the
\* effects this module makes from its own Effect objects, absent on the
\* effects of other origin.
Flagged == [id : EffectIds, label : Labels, disabled : BOOLEAN, isConvenient : BOOLEAN]

FlaggedCollections(n) ==
    {c \in [1 .. n -> Flagged] : \A i, j \in 1 .. n : i # j => c[i].id # c[j].id}

FlaggedWorlds ==
    {[a \in Actors |-> IF a = "a1" THEN w[1] ELSE w[2]] :
        w \in UNION {FlaggedCollections(n[1]) \X FlaggedCollections(n[2]) :
                        n \in {m \in (0 .. MaxEffects) \X (0 .. MaxEffects) :
                                  m[1] + m[2] <= MaxEffects}}}

InitFlagged ==
    /\ effects \in FlaggedWorlds
    /\ last = NoCall
    /\ pc = [p \in Calls |-> "idle"]
    /\ call = [p \in Calls |-> NoCall]
    /\ StatusIdle

NextConvenient == QueryHasEffectApplied

SpecConvenient == InitFlagged /\ [][NextConvenient]_vars

\* ---- additions that hand one Effect object to several calls. call[1] is
\* the caller's Effect object, which the handler writes to; the active
\* effects carry the origin of the data they were created from.

\* `Actor.${actor.id}`
ActorOrigin(actor) == IF actor = "a1" THEN "Actor.a1" ELSE "Actor.a2"

\* The origin argument of a call: empty, or the origin the caller names.
OriginArgs == {"", "Item.i1"}

\* effect.origin = effect.origin ? effect.origin : origin
WithOrigin(effect, origin) ==
    [effect EXCEPT !.origin = IF effect.origin # "" THEN effect.origin ELSE origin]

\* EffectSupport.convertToActiveEffectData(effect), origin included.
convertToActiveEffectDataWithOrigin(effect) ==
    [label |-> i18n(effect.name), disabled |-> effect.isDisabled, origin |-> effect.origin]

\* createEmbeddedDocuments with data that carries an origin.
HostCreateWithOrigin(effs, actor, data, id) ==
    [effs EXCEPT ![actor] =
        Append(effs[actor], [id |-> id, label |-> data.label, disabled |-> data.disabled,
                             origin |-> data.origin])]

\* The body of addEffectOnActor and addEffectOnToken once the actor and the
\* default origin are known: the outcomes, each with the Effect object as
\* the call leaves it.
AddWithOrigin(effs, found, actor, origin, effect) ==
    LET written == WithOrigin(effect, IF origin = "" THEN ActorOrigin(actor) ELSE origin)
    IN IF found # 0 THEN {[effs |-> effs, res |-> "blocked", effect |-> written]}
       ELSE IF TotalEffects(effs) >= MaxEffects THEN {}
       ELSE {[effs |-> HostCreateWithOrigin(effs, actor,
                           convertToActiveEffectDataWithOrigin(written), id),
              res |-> "created", effect |-> written] :
                id \in EffectIds \ IdsOf(effs[actor])}

\* addEffectOnActor(effectName, uuid, origin, overlay, effect)
addEffectOnActorWithOrigin(effs, effectName, uuid, origin, effect) ==
    AddWithOrigin(effs, findEffectByNameOnActor(effs, effectName, uuid), uuid, origin, effect)

\* addEffectOnToken(effectName, uuid, origin, overlay, effect), the token
\* has an actor.
addEffectOnTokenWithOrigin(effs, effectName, uuid, origin, effect) ==
    AddWithOrigin(effs, findEffectByNameOnToken(effs, effectName, uuid), TokenActor(uuid),
                  origin, effect)

\* A call with the caller's object: the object keeps what the call wrote.
Handed(op, args, outcomes) ==
    /\ \E o \in outcomes :
          /\ effects' = o.effs
          /\ call' = [call EXCEPT ![1] = [op |-> "object", effect |-> o.effect]]
          /\ last' = [op |-> op, args |-> args, res |-> o.res, before |-> effects]
    /\ UNCHANGED pc
    /\ UNCHANGED statusVars

HandAddEffectOnActor ==
    /\ call[1].op = "object"
    /\ \E effectName \in EffectNames, uuid \in Actors, origin \in OriginArgs :
           Handed("addEffectOnActor",
                  [effectName |-> effectName, actor |-> uuid, origin |-> origin,
                   effect |-> call[1].effect],
                  addEffectOnActorWithOrigin(effects, effectName, uuid, origin, call[1].effect))

HandAddEffectOnToken ==
    /\ call[1].op = "object"
    /\ \E effectName \in EffectNames, uuid \in Tokens, origin \in OriginArgs :
           Handed("addEffectOnToken",
                  [effectName |-> effectName, actor |-> TokenActor(uuid), origin |-> origin,
                   effect |-> call[1].effect],
                  addEffectOnTokenWithOrigin(effects, effectName, uuid, origin, call[1].effect))

\* No actor holds an effect; the caller holds an Effect without an origin.
InitOrigin ==
    /\ effects = [a \in Actors |-> <<>>]
    /\ last = NoCall
    /\ pc = [p \in Calls |-> "idle"]
    /\ \E name \in Labels, isDisabled \in BOOLEAN :
           call = [p \in Calls |->
                      IF p = 1 THEN [op |-> "object",
                                     effect |-> [name |-> name, isDisabled |-> isDisabled,
                                                 origin |-> ""]]
                      ELSE NoCall]
    /\ StatusIdle

NextOrigin ==
    \/ HandAddEffectOnActor
    \/ HandAddEffectOnToken

SpecOrigin == InitOrigin /\ [][NextOrigin]_vars

\* ---- the positional-array variants

ObserveToggleEffectArr ==
    /\ last = NoCall
    /\ \E inAttributes \in EffectNames \X {FALSE} \X UuidLists \X {Undefined} \X (Effects \cup {Undefined}) :
           Observed("toggleEffectArr", inAttributes, toggleEffectArr(effects, inAttributes))

ObserveHasEffectAppliedArr ==
    /\ last = NoCall
    /\ \E inAttributes \in EffectNames \X Actors :
           Observed("hasEffectAppliedArr", inAttributes, hasEffectAppliedArr(effects, inAttributes))

ObserveRemoveEffectArr ==
    /\ last = NoCall
    /\ \E inAttributes \in EffectNames \X Actors :
           Observed("removeEffectArr", inAttributes, removeEffectArr(effects, inAttributes))

ObserveAddEffectArr ==
    /\ last = NoCall
    /\ \E inAttributes \in EffectNames \X (Effects \cup {Undefined}) \X Actors \X {""} \X {FALSE} \X {Undefined} :
           Observed("addEffectArr", inAttributes, addEffectArr(effects, inAttributes))

ObserveFindEffectByNameOnActorArr ==
    /\ last = NoCall
    /\ \E inAttributes \in EffectNames \X Actors :
           Observed("findEffectByNameOnActorArr", inAttributes, findEffectByNameOnActorArr(effects, inAttributes))

ObserveHasEffectAppliedOnActorArr ==
    /\ last = NoCall
    /\ \E inAttributes \in EffectNames \X Actors \X BOOLEAN :
           Observed("hasEffectAppliedOnActorArr", inAttributes, hasEffectAppliedOnActorArr(effects, inAttributes))

ObserveHasEffectAppliedFromIdOnActorArr ==
    /\ last = NoCall
    /\ \E inAttributes \in IdArgs \X Actors \X BOOLEAN :
           Observed("hasEffectAppliedFromIdOnActorArr", inAttributes, hasEffectAppliedFromIdOnActorArr(effects, inAttributes))

ObserveRemoveEffectOnActorArr ==
    /\ last = NoCall
    /\ \E inAttributes \in EffectNames \X Actors :
           Observed("removeEffectOnActorArr", inAttributes, removeEffectOnActorArr(effects, inAttributes))

ObserveRemoveEffectFromIdOnActorArr ==
    /\ last = NoCall
    /\ \E inAttributes \in IdArgs \X Actors :
           Observed("removeEffectFromIdOnActorArr", inAttributes, removeEffectFromIdOnActorArr(effects, inAttributes))

ObserveAddEffectOnActorArr ==
    /\ last = NoCall
    /\ \E inAttributes \in EffectNames \X Actors \X {""} \X {FALSE} \X (Effects \cup {Undefined}) :
           Observed("addEffectOnActorArr", inAttributes, addEffectOnActorArr(effects, inAttributes))

ObserveToggleEffectFromIdOnActorArr ==
    /\ last = NoCall
    /\ \E inAttributes \in IdArgs \X Actors \X BOOLEAN \X BOOLEAN \X BOOLEAN :
           Observed("toggleEffectFromIdOnActorArr", inAttributes, toggleEffectFromIdOnActorArr(effects, inAttributes))

ObserveAddActiveEffectOnActorArr ==
    /\ last = NoCall
    /\ \E inAttributes \in Actors \X (ActiveEffectDatas \cup {Undefined}) :
           Observed("addActiveEffectOnActorArr", inAttributes, addActiveEffectOnActorArr(effects, inAttributes))

ObserveFindEffectByNameOnTokenArr ==
    /\ last = NoCall
    /\ \E inAttributes \in EffectNames \X Tokens :
           Observed("findEffectByNameOnTokenArr", inAttributes, findEffectByNameOnTokenArr(effects, inAttributes))

ObserveHasEffectAppliedOnTokenArr ==
    /\ last = NoCall
    /\ \E inAttributes \in EffectNames \X Tokens \X BOOLEAN :
           Observed("hasEffectAppliedOnTokenArr", inAttributes, hasEffectAppliedOnTokenArr(effects, inAttributes))

ObserveHasEffectAppliedFromIdOnTokenArr ==
    /\ last = NoCall
    /\ \E inAttributes \in IdArgs \X Tokens \X BOOLEAN :
           Observed("hasEffectAppliedFromIdOnTokenArr", inAttributes, hasEffectAppliedFromIdOnTokenArr(effects, inAttributes))

ObserveRemoveEffectOnTokenArr ==
    /\ last = NoCall
    /\ \E inAttributes \in EffectNames \X Tokens :
           Observed("removeEffectOnTokenArr", inAttributes, removeEffectOnTokenArr(effects, inAttributes))

ObserveRemoveEffectFromIdOnTokenArr ==
    /\ last = NoCall
    /\ \E inAttributes \in IdArgs \X Tokens :
           Observed("removeEffectFromIdOnTokenArr", inAttributes, removeEffectFromIdOnTokenArr(effects, inAttributes))

ObserveRemoveEffectFromIdOnTokenMultipleArr ==
    /\ last = NoCall
    /\ \E inAttributes \in (SUBSET EffectIds) \X Tokens :
           Observed("removeEffectFromIdOnTokenMultipleArr", inAttributes, removeEffectFromIdOnTokenMultipleArr(effects, inAttributes))

ObserveAddEffectOnTokenArr ==
    /\ last = NoCall
    /\ \E inAttributes \in EffectNames \X Tokens \X {""} \X {FALSE} \X (Effects \cup {Undefined}) :
           Observed("addEffectOnTokenArr", inAttributes, addEffectOnTokenArr(effects, inAttributes))

ObserveToggleEffectFromIdOnTokenArr ==
    /\ last = NoCall
    /\ \E inAttributes \in IdArgs \X Tokens \X BOOLEAN \X BOOLEAN \X BOOLEAN :
           Observed("toggleEffectFromIdOnTokenArr", inAttributes, toggleEffectFromIdOnTokenArr(effects, inAttributes))

ObserveAddActiveEffectOnTokenArr ==
    /\ last = NoCall
    /\ \E inAttributes \in Tokens \X (ActiveEffectDatas \cup {Undefined}) :
           Observed("addActiveEffectOnTokenArr", inAttributes, addActiveEffectOnTokenArr(effects, inAttributes))

ObserveUpdateEffectFromIdOnTokenArr ==
    /\ last = NoCall
    /\ \E inAttributes \in IdArgs \X Tokens \X {""} \X {FALSE} \X Effects :
           Observed("updateEffectFromIdOnTokenArr", inAttributes, updateEffectFromIdOnTokenArr(effects, inAttributes))

ObserveUpdateEffectFromNameOnTokenArr ==
    /\ last = NoCall
    /\ \E inAttributes \in EffectNames \X Tokens \X {""} \X {FALSE} \X Effects :
           Observed("updateEffectFromNameOnTokenArr", inAttributes, updateEffectFromNameOnTokenArr(effects, inAttributes))

ObserveUpdateActiveEffectFromIdOnTokenArr ==
    /\ last = NoCall
    /\ \E inAttributes \in IdArgs \X Tokens \X {""} \X {FALSE} \X ActiveEffectDatas :
           Observed("updateActiveEffectFromIdOnTokenArr", inAttributes, updateActiveEffectFromIdOnTokenArr(effects, inAttributes))

ObserveUpdateActiveEffectFromNameOnTokenArr ==
    /\ last = NoCall
    /\ \E inAttributes \in EffectNames \X Tokens \X {""} \X {FALSE} \X ActiveEffectDatas :
           Observed("updateActiveEffectFromNameOnTokenArr", inAttributes, updateActiveEffectFromNameOnTokenArr(effects, inAttributes))

NextArr ==
    \/ ObserveToggleEffectArr
    \/ ObserveHasEffectAppliedArr
    \/ ObserveRemoveEffectArr
    \/ ObserveAddEffectArr
    \/ ObserveFindEffectByNameOnActorArr
    \/ ObserveHasEffectAppliedOnActorArr
    \/ ObserveHasEffectAppliedFromIdOnActorArr
    \/ ObserveRemoveEffectOnActorArr
    \/ ObserveRemoveEffectFromIdOnActorArr
    \/ ObserveAddEffectOnActorArr
    \/ ObserveToggleEffectFromIdOnActorArr
    \/ ObserveAddActiveEffectOnActorArr
    \/ ObserveFindEffectByNameOnTokenArr
    \/ ObserveHasEffectAppliedOnTokenArr
    \/ ObserveHasEffectAppliedFromIdOnTokenArr
    \/ ObserveRemoveEffectOnTokenArr
    \/ ObserveRemoveEffectFromIdOnTokenArr
    \/ ObserveRemoveEffectFromIdOnTokenMultipleArr
    \/ ObserveAddEffectOnTokenArr
    \/ ObserveToggleEffectFromIdOnTokenArr
    \/ ObserveAddActiveEffectOnTokenArr
    \/ ObserveUpdateEffectFromIdOnTokenArr
    \/ ObserveUpdateEffectFromNameOnTokenArr
    \/ ObserveUpdateActiveEffectFromIdOnTokenArr
    \/ ObserveUpdateActiveEffectFromNameOnTokenArr

SpecArr == InitWorlds /\ [][NextArr]_vars

\* What the method the variant op is named after does with the arguments a.
Direct(op, a, effs) ==
    CASE op = "toggleEffectArr" -> toggleEffect(effs, a[1], a[3], a[5])
      [] op = "hasEffectAppliedArr" -> Outcome(effs, hasEffectApplied(effs, a[1], a[2]))
      [] op = "removeEffectArr" -> removeEffect(effs, a[1], a[2])
      [] op = "addEffectArr" -> addEffect(effs, a[1], a[2], a[3])
      [] op = "findEffectByNameOnActorArr" -> Outcome(effs, findEffectByNameOnActor(effs, a[1], a[2]))
      [] op = "hasEffectAppliedOnActorArr" -> Outcome(effs, hasEffectAppliedOnActor(effs, a[1], a[2], a[3]))
      [] op = "hasEffectAppliedFromIdOnActorArr" -> Outcome(effs, hasEffectAppliedFromIdOnActor(effs, a[1], a[2], a[3]))
      [] op = "removeEffectOnActorArr" -> removeEffectOnActor(effs, a[1], a[2])
      [] op = "removeEffectFromIdOnActorArr" -> removeEffectFromIdOnActor(effs, a[1], a[2])
      [] op = "addEffectOnActorArr" -> addEffectOnActor(effs, a[1], a[2], a[5])
      [] op = "toggleEffectFromIdOnActorArr" -> toggleEffectFromIdOnActor(effs, a[1], a[2], a[3], a[4], a[5])
      [] op = "addActiveEffectOnActorArr" -> addActiveEffectOnActor(effs, a[1], a[2])
      [] op = "findEffectByNameOnTokenArr" -> Outcome(effs, findEffectByNameOnToken(effs, a[1], a[2]))
      [] op = "hasEffectAppliedOnTokenArr" -> Outcome(effs, hasEffectAppliedOnToken(effs, a[1], a[2], a[3]))
      [] op = "hasEffectAppliedFromIdOnTokenArr" -> Outcome(effs, hasEffectAppliedFromIdOnToken(effs, a[1], a[2], a[3]))
      [] op = "removeEffectOnTokenArr" -> removeEffectOnToken(effs, a[1], a[2])
      [] op = "removeEffectFromIdOnTokenArr" -> removeEffectFromIdOnToken(effs, a[1], a[2])
      [] op = "removeEffectFromIdOnTokenMultipleArr" -> removeEffectFromIdOnTokenMultiple(effs, a[1], a[2])
      [] op = "addEffectOnTokenArr" -> addEffectOnToken(effs, a[1], a[2], a[5])
      [] op = "toggleEffectFromIdOnTokenArr" -> toggleEffectFromIdOnToken(effs, a[1], a[2], a[3], a[4], a[5])
      [] op = "addActiveEffectOnTokenArr" -> addActiveEffectOnToken(effs, a[1], a[2])
      [] op = "updateEffectFromIdOnTokenArr" -> updateEffectFromIdOnToken(effs, a[1], a[2], a[5])
      [] op = "updateEffectFromNameOnTokenArr" -> updateEffectFromNameOnToken(effs, a[1], a[2], a[5])
      [] op = "updateActiveEffectFromIdOnTokenArr" -> updateActiveEffectFromIdOnToken(effs, a[1], a[2], a[5])
      [] op = "updateActiveEffectFromNameOnTokenArr" -> updateActiveEffectFromNameOnToken(effs, a[1], a[2], a[5])

\* ================================================================
\* Two calls of addEffectOnActor / addEffectOnToken that overlap. A call
\* scans the collection when it is made (findEffectByNameOn... runs up to
\* its return), goes on after the await, asks the host for the create, and
\* the host completes the create later.
\* ================================================================

\* The Effects the overlapping calls pass.
OverlapEffects == {e \in Effects : ~e.isDisabled}

\* Mutant of RequestedCreate: the host refuses a create whose label an
\* effect of the actor already carries.
RequestedCreateUnique(effs, c) ==
    IF FindByLabel(effs[c.actor], i18n(c.effect.name)) # 0 THEN Outcome(effs, "blocked")
    ELSE Created(effs, c.actor, convertToActiveEffectData(c.effect), "created")

\* The create call c has asked for, completed by the host on the
\* collections effs of that moment.
RequestedCreate(effs, c) ==
    Created(effs, c.actor, convertToActiveEffectData(c.effect), "created")

\* The call is made: up to the await of the lookup.
BeginAdd(p, op, effectName, uuid, effect) ==
    LET actor == IF op = "addEffectOnToken" THEN TokenActor(uuid) ELSE uuid
        found == IF op = "addEffectOnToken"
                 THEN findEffectByNameOnToken(effects, effectName, uuid)
                 ELSE findEffectByNameOnActor(effects, effectName, uuid)
    IN /\ pc[p] = "idle"
       /\ \A q \in Calls \ {p} :
              IF pc[q] = "idle" THEN TRUE
              ELSE call[q].effectName = effectName /\ call[q].actor = actor
       /\ call' = [call EXCEPT ![p] = [op |-> op, effectName |-> effectName, actor |-> actor,
                                       effect |-> effect, found |-> found,
                                       seen |-> effects[actor], res |-> "pending"]]
       /\ pc' = [pc EXCEPT ![p] = IF effect = Undefined THEN "done" ELSE "awaitFind"]
       /\ UNCHANGED <<effects, last>>
       /\ UNCHANGED statusVars

BeginAddEffectOnActor ==
    \E p \in Calls, effectName \in EffectNames, uuid \in Actors, effect \in OverlapEffects :
        BeginAdd(p, "addEffectOnActor", effectName, uuid, effect)

BeginAddEffectOnToken ==
    \E p \in Calls, effectName \in EffectNames, uuid \in Tokens, effect \in OverlapEffects :
        BeginAdd(p, "addEffectOnToken", effectName, uuid, effect)

\* The lookup has answered: the call returns when it found an effect, and
\* asks the host for the create when it found none.
ResumeAdd ==
    \E p \in Calls :
        /\ pc[p] = "awaitFind"
        /\ pc' = [pc EXCEPT ![p] = IF call[p].found # 0 THEN "done" ELSE "awaitCreate"]
        /\ call' = [call EXCEPT ![p].res = IF call[p].found # 0 THEN "blocked" ELSE "pending"]
        /\ UNCHANGED <<effects, last>>
        /\ UNCHANGED statusVars

\* The host completes the create, and the call returns.
HostCompletesCreate ==
    \E p \in Calls :
        /\ pc[p] = "awaitCreate"
        /\ \E o \in RequestedCreate(effects, call[p]) :
              /\ effects' = o.effs
              /\ call' = [call EXCEPT ![p].res = o.res]
        /\ pc' = [pc EXCEPT ![p] = "done"]
        /\ UNCHANGED last
        /\ UNCHANGED statusVars

\* Actors without two effects of one name, with room for the two creates.
InitOverlap ==
    /\ effects \in {w \in Worlds : NoDuplicateNames(w) /\ TotalEffects(w) + 2 <= MaxEffects}
    /\ last = NoCall
    /\ pc = [p \in Calls |-> "idle"]
    /\ call = [p \in Calls |-> NoCall]
    /\ StatusIdle

NextOverlap ==
    \/ BeginAddEffectOnActor
    \/ BeginAddEffectOnToken
    \/ ResumeAdd
    \/ HostCompletesCreate

SpecOverlap == InitOverlap /\ [][NextOverlap]_vars

\* ================================================================
\* One call, step by step: the call examines the collection of a uuid,
\* issues the host call it decides on and awaits it; the host completes
\* the call; toggleEffect then goes on to the next uuid. call[1] is the
\* frame of the running call, with the log of what it did.
\* ================================================================

NoData == [label |-> "", disabled |-> FALSE]

HostCall(kind, actor, id, data) == [kind |-> kind, actor |-> actor, id |-> id, data |-> data]

\* The host calls of removeEffect(effectName, uuid), in order.
removeEffectCalls(effs, effectName, uuid) ==
    LET i == FindByLabelStrict(effs[uuid], effectName)
    IN IF i = 0 THEN <<>>
       ELSE <<HostCall("delete", uuid, effs[uuid][i].id, NoData)>>

\* The host calls of addEffect(effectName, effectData, uuid, ...), which
\* throws before any of them when effectData is undefined.
addEffectCalls(effs, effectName, effectData, uuid) ==
    LET found == findEffectByName(effs, effectName, uuid)
        effect == IF found # 0 THEN convertActiveEffectToEffect(effs[uuid][found])
                  ELSE effectData
    IN IF findEffectByNameOnActor(effs, effectName, uuid) # 0 THEN <<>>
       ELSE <<HostCall("create", uuid, NoId, convertToActiveEffectData(effect))>>

\* The host calls of removeEffectOnActor(effectName, uuid).
removeEffectOnActorCalls(effs, effectName, uuid) ==
    LET i == FindByLabelStrict(effs[uuid], Localized(effectName))
    IN IF i = 0 THEN <<>>
       ELSE <<HostCall("delete", uuid, effs[uuid][i].id, NoData)>>

\* The host calls of addEffectOnActor(effectName, uuid, origin, overlay, effect).
addEffectOnActorCalls(effs, effectName, uuid, effect) ==
    IF effect = Undefined THEN <<>>
    ELSE IF findEffectByNameOnActor(effs, effectName, uuid) # 0 THEN <<>>
         ELSE <<HostCall("create", uuid, NoId, convertToActiveEffectData(effect))>>

\* The host calls of addActiveEffectOnActor(uuid, activeEffectData).
addActiveEffectOnActorCalls(uuid, activeEffectData) ==
    IF activeEffectData = Undefined THEN <<>>
    ELSE <<HostCall("create", uuid, NoId, activeEffectData)>>

\* The host calls of toggleEffectFromIdOnToken(effectId, uuid, alwaysDelete,
\* forceEnabled, forceDisabled).
toggleEffectFromIdOnTokenCalls(effs, effectId, uuid, alwaysDelete, forceEnabled, forceDisabled) ==
    LET actor == TokenActor(uuid)
        i == FindById(effs[actor], effectId)
    IN IF i = 0 THEN <<>>
       ELSE IF alwaysDelete THEN <<HostCall("delete", actor, effectId, NoData)>>
            ELSE <<HostCall("update", actor, effectId,
                            [label |-> effs[actor][i].label,
                             disabled |-> ToggledDisabled(effs[actor][i].disabled,
                                                          forceEnabled, forceDisabled)])>>

\* The call throws while it examines uuid: toggleEffect hands an undefined
\* effectData to addEffect.
Throws(f, effs, uuid) ==
    /\ f.op = "toggleEffect"
    /\ ~hasEffectApplied(effs, f.args.effectName, uuid)
    /\ f.args.effectData = Undefined

\* The host calls the running call decides on for uuid.
CallsOf(f, effs, uuid) ==
    CASE f.op = "toggleEffect" ->
             IF hasEffectApplied(effs, f.args.effectName, uuid)
             THEN removeEffectCalls(effs, f.args.effectName, uuid)
             ELSE addEffectCalls(effs, f.args.effectName, f.args.effectData, uuid)
      [] f.op = "removeEffectOnActor" -> removeEffectOnActorCalls(effs, f.args.effectName, uuid)
      [] f.op = "addEffectOnActor" ->
             addEffectOnActorCalls(effs, f.args.effectName, uuid, f.args.effect)
      [] f.op = "addActiveEffectOnActor" ->
             addActiveEffectOnActorCalls(uuid, f.args.activeEffectData)
      [] f.op = "toggleEffectFromIdOnToken" ->
             toggleEffectFromIdOnTokenCalls(effs, f.args.effectId, uuid, f.args.alwaysDelete,
                                            f.args.forceEnabled, f.args.forceDisabled)

\* What the host does with a call: the collections afterwards.
HostCompleted(effs, c) ==
    CASE c.kind = "create" -> {o.effs : o \in Created(effs, c.actor, c.data, "created")}
      [] c.kind = "delete" -> {HostDelete(effs, c.actor, {c.id})}
      [] c.kind = "update" -> {HostUpdate(effs, c.actor, c.id, c.data)}

\* The operations that read the effects collection of the uuid before they
\* decide: addActiveEffectOnActor does not.
Scans(op) == op # "addActiveEffectOnActor"

ActorOf(op, uuid) == IF op = "toggleEffectFromIdOnToken" THEN TokenActor(uuid) ELSE uuid

Event(ev, f, kind) ==
    [ev |-> ev, at |-> f.i, actor |-> ActorOf(f.op, f.uuids[f.i]), kind |-> kind]

Starts(op, args, uuids) ==
    /\ pc[1] = "idle"
    /\ call' = [call EXCEPT ![1] = [op |-> op, args |-> args, uuids |-> uuids, i |-> 1,
                                    queue |-> <<>>, log |-> <<>>, before |-> effects]]
    /\ pc' = [pc EXCEPT ![1] = IF uuids = <<>> THEN "done" ELSE "examine"]
    /\ UNCHANGED <<effects, last>>
    /\ UNCHANGED statusVars

StartToggleEffect ==
    /\ pc[1] = "idle"
    /\ \E effectName \in EffectNames, uuids \in UuidLists, effectData \in Effects \cup {Undefined} :
           Starts("toggleEffect", [effectName |-> effectName, effectData |-> effectData], uuids)

StartRemoveEffectOnActor ==
    /\ pc[1] = "idle"
    /\ \E effectName \in EffectNames, uuid \in Actors :
           Starts("removeEffectOnActor", [effectName |-> effectName], <<uuid>>)

StartAddEffectOnActor ==
    /\ pc[1] = "idle"
    /\ \E effectName \in EffectNames, uuid \in Actors, effect \in Effects \cup {Undefined} :
           Starts("addEffectOnActor", [effectName |-> effectName, effect |-> effect], <<uuid>>)

StartAddActiveEffectOnActor ==
    /\ pc[1] = "idle"
    /\ \E uuid \in Actors, activeEffectData \in ActiveEffectDatas \cup {Undefined} :
           Starts("addActiveEffectOnActor", [activeEffectData |-> activeEffectData], <<uuid>>)

StartToggleEffectFromIdOnToken ==
    /\ pc[1] = "idle"
    /\ \E effectId \in IdArgs, uuid \in Tokens, alwaysDelete, forceEnabled, forceDisabled \in BOOLEAN :
           Starts("toggleEffectFromIdOnToken",
                  [effectId |-> effectId, alwaysDelete |-> alwaysDelete,
                   forceEnabled |-> forceEnabled, forceDisabled |-> forceDisabled], <<uuid>>)

\* The position of the call once it is through with uuid number f.i.
Through(f) == IF f.i + 1 > Len(f.uuids) THEN "done" ELSE "examine"

\* The call resolves its next uuid, examines the collection when it is an
\* operation that does, and issues the first host call it decides on.
Examines ==
    /\ pc[1] = "examine"
    /\ LET f == call[1]
           uuid == f.uuids[f.i]
           scanned == IF Scans(f.op) THEN Append(f.log, Event("scan", f, "")) ELSE f.log
       IN IF Throws(f, effects, uuid)
          THEN /\ call' = [call EXCEPT ![1].log = scanned]
               /\ pc' = [pc EXCEPT ![1] = "done"]
          ELSE LET cs == CallsOf(f, effects, uuid)
               IN IF cs = <<>>
                  THEN /\ call' = [call EXCEPT ![1].log = scanned, ![1].i = f.i + 1]
                       /\ pc' = [pc EXCEPT ![1] = Through(f)]
                  ELSE /\ call' = [call EXCEPT ![1].queue = cs,
                                       ![1].log = Append(scanned, Event("issue", f, cs[1].kind))]
                       /\ pc' = [pc EXCEPT ![1] = "await"]
    /\ UNCHANGED <<effects, last>>
    /\ UNCHANGED statusVars

\* The host completes the call awaited; the call issues the next one it
\* decided on, or is through with the uuid.
HostCompletes ==
    /\ pc[1] = "await"
    /\ LET f == call[1]
           rest == Tail(f.queue)
           completed == Append(f.log, Event("complete", f, f.queue[1].kind))
       IN /\ effects' \in HostCompleted(effects, f.queue[1])
          /\ IF rest = <<>>
             THEN /\ call' = [call EXCEPT ![1].queue = rest, ![1].log = completed,
                                          ![1].i = f.i + 1]
                  /\ pc' = [pc EXCEPT ![1] = Through(f)]
             ELSE /\ call' = [call EXCEPT ![1].queue = rest,
                                          ![1].log = Append(completed,
                                                            Event("issue", f, rest[1].kind))]
                  /\ UNCHANGED pc
    /\ UNCHANGED last
    /\ UNCHANGED statusVars

\* The worlds with room for a create.
InitSteps ==
    /\ effects \in {w \in Worlds : TotalEffects(w) < MaxEffects}
    /\ last = NoCall
    /\ pc = [p \in Calls |-> "idle"]
    /\ call = [p \in Calls |-> NoCall]
    /\ StatusIdle

NextSteps ==
    \/ StartToggleEffect
    \/ StartRemoveEffectOnActor
    \/ StartAddEffectOnActor
    \/ StartAddActiveEffectOnActor
    \/ StartToggleEffectFromIdOnToken
    \/ Examines
    \/ HostCompletes

SpecSteps == InitSteps /\ [][NextSteps]_vars

\* ------------------------------------------- claims on the handler

\* Every world is reached by the handler's operations from the empty world.
WorldsAreReached == effects \in Worlds

\* C1: starting from actors on which no two active effects share a display
\* name, after any sequence of handler operations run one at a time, at most
\* one active effect with a given display name exists on each actor.
C1_AtMostOneEffectPerName == NoDuplicateNames(effects)

\* The effects of coll that the name lookups match with effectName: the
\* label is the localized effectName ignoring case.
MatchCount(coll, effectName) ==
    Cardinality({i \in 1 .. Len(coll) : Lower(coll[i].label) = Lower(Localized(effectName))})

AllDone == \A p \in Calls : pc[p] = "done"

\* Both calls are for one name and one actor, both scanned the same
\* collection (neither create was complete at either scan), and that
\* collection held no effect of the name.
Overlapped ==
    /\ AllDone
    /\ call[1].actor = call[2].actor
    /\ call[1].effectName = call[2].effectName
    /\ call[1].seen = call[2].seen
    /\ MatchCount(call[1].seen, call[1].effectName) = 0

\* C2 as stated: when two addEffectOnActor (or addEffectOnToken) calls for
\* the same effect name and the same actor overlap, so that the pre-check of
\* both runs before the create of either completes, the actor still ends
\* with at most one active effect of that name.
C2_OverlapKeepsOneEffect ==
    Overlapped => MatchCount(effects[call[1].actor], call[1].effectName) <= 1

\* C2 amended: when the two calls overlap in that way on an actor without an
\* effect of that name, neither pre-check finds an effect, both calls
\* create, and the actor ends with two effects more than it had; when both
\* Effects carry the name, it ends with two active effects of that name.
C2_OverlappingAddsBothCreate ==
    Overlapped =>
        /\ \A p \in Calls : call[p].res = "created"
        /\ Len(effects[call[1].actor]) = Len(call[1].seen) + 2
        /\ (\A p \in Calls : isStringEquals(i18n(call[p].effect.name),
                                            Localized(call[1].effectName)))
               => MatchCount(effects[call[1].actor], call[1].effectName) = 2

\* C2's case: an addEffectOnActor and an addEffectOnToken call for "Bless"
\* on one actor overlapped, and the actor holds "Bless" twice.
C2_Witness ==
    /\ Overlapped
    /\ call[1].op = "addEffectOnActor"
    /\ call[2].op = "addEffectOnToken"
    /\ call[1].effectName = "Bless"
    /\ MatchCount(effects[call[1].actor], "Bless") = 2

\* C3: after addEffectOnActor(effectName, uuid, origin, overlay, effect)
\* completes with a non-null effect on an actor that held no active effect
\* (enabled or disabled) named effectName, the actor holds exactly one more
\* active effect than before and hasEffectAppliedOnActor(effectName, uuid,
\* true) returns true.
C3_AddEffectOnActorAddsNamedEffect ==
    (/\ last.op = "addEffectOnActor"
     /\ last.args.effect # Undefined
     /\ MatchCount(last.before[last.args.actor], last.args.effectName) = 0)
    => /\ Len(effects[last.args.actor]) = Len(last.before[last.args.actor]) + 1
       /\ hasEffectAppliedOnActor(effects, last.args.effectName, last.args.actor, TRUE)

\* C4: after removeEffectOnActor(effectName, uuid) (or removeEffectOnToken)
\* completes on an actor that holds at most one active effect matching
\* effectName, hasEffectAppliedOnActor(effectName, uuid, true) returns false.
C4_RemovedEffectIsNoLongerApplied ==
    (/\ last.op \in {"removeEffectOnActor", "removeEffectOnToken"}
     /\ MatchCount(last.before[last.args.actor], last.args.effectName) <= 1)
    => ~hasEffectAppliedOnActor(effects, last.args.effectName, last.args.actor, TRUE)

\* C5: toggleEffect(effectName, overlay, uuids, metadata, effectData), called
\* with effectData supplied and each uuid listed once, leaves
\* hasEffectApplied(effectName, uuid), for every listed uuid, the negation
\* of what it was before the call.
C5_ToggleEffectNegatesApplied ==
    (/\ last.op = "toggleEffect"
     /\ last.args.effectData # Undefined
     /\ NoDuplicates(last.args.uuids))
    => \A i \in 1 .. Len(last.args.uuids) :
           hasEffectApplied(effects, last.args.effectName, last.args.uuids[i])
               = ~hasEffectApplied(last.before, last.args.effectName, last.args.uuids[i])

C7_StatusListHasNoDuplicates == NoDuplicates(statusEffectNames)

\* C7's case: a name already stored has just been added again, to a list of
\* several names.
C7_Witness ==
    /\ lastStatus.op = "addStatusEffect"
    /\ lastStatus.name \in Range(lastStatus.before)
    /\ Len(lastStatus.before) >= 2

\* C8: starting from the empty list, isStatusEffect(name) is true exactly
\* when name has been added and its latest addStatusEffect(name) is later
\* than the latest removeStatusEffect(name) and the latest
\* resetStatusEffects; names are compared exactly, so "Bless" and "bless"
\* are two names.
C8_IsStatusEffectIffLatestAddWins ==
    \A name \in Labels :
        isStatusEffect(name) <=>
            /\ lastAdd[name] > 0
            /\ lastAdd[name] > lastRemove[name]
            /\ lastAdd[name] > lastReset

\* C8's case: "Bless" was added after a reset and is a status effect, while
\* "bless" was added and then removed and is none.
C8_Witness ==
    /\ isStatusEffect("Bless")
    /\ lastReset > 0
    /\ lastAdd["Bless"] > lastReset
    /\ ~isStatusEffect("bless")
    /\ lastAdd["bless"] > 0
    /\ lastRemove["bless"] > lastAdd["bless"]

\* C9: addStatusEffect(name) appends an absent name after all stored names,
\* leaves the list as it was when the name is already stored, and a second
\* call with the same name stores the same list as the first.
C9_AddStatusEffectIdempotentOrdered ==
    lastStatus.op = "addStatusEffect" =>
        LET before == lastStatus.before
            name == lastStatus.name
        IN /\ name \notin Range(before) => statusEffectNames = Append(before, name)
           /\ name \in Range(before) => statusEffectNames = before
           /\ AddStatusEffectList(statusEffectNames, name) = statusEffectNames

\* C9's case: a name stored first in a list of several names has been added
\* again.
C9_Witness ==
    /\ lastStatus.op = "addStatusEffect"
    /\ Len(lastStatus.before) >= 2
    /\ lastStatus.before[1] = lastStatus.name

\* b is a with some elements left out: the elements it keeps are in their
\* order in a (lists without duplicates).
KeepsOrderOf(b, a) ==
    \A i, j \in 1 .. Len(b) :
        i < j => \E k, l \in 1 .. Len(a) : k < l /\ a[k] = b[i] /\ a[l] = b[j]

\* C10: removeStatusEffect(name) leaves no occurrence of name in the stored
\* list, keeps every other name, in its previous relative order, and stores
\* the list it found when name is not in it.
C10_RemoveStatusEffectFrame ==
    lastStatus.op = "removeStatusEffect" =>
        LET before == lastStatus.before
            name == lastStatus.name
        IN /\ name \notin Range(statusEffectNames)
           /\ Range(statusEffectNames) = Range(before) \ {name}
           /\ Len(statusEffectNames) = Cardinality(Range(before) \ {name})
           /\ KeepsOrderOf(statusEffectNames, before)
           /\ name \notin Range(before) => statusEffectNames = before

\* C10's case: the name in the middle of a list of three has been removed.
C10_Witness ==
    /\ lastStatus.op = "removeStatusEffect"
    /\ Len(lastStatus.before) = 3
    /\ lastStatus.before[2] = lastStatus.name
    /\ Len(statusEffectNames) = 2

\* C11: after resetStatusEffects completes, the stored list is the default
\* list whatever it held before; the default list is empty, so isStatusEffect
\* is false for every name until the next addStatusEffect.
C11_ResetRestoresEmptyDefault ==
    (lastReset > 0 /\ \A n \in Labels : lastAdd[n] < lastReset) =>
        /\ statusEffectNames = DefaultStatusEffectNames
        /\ statusEffectNames = <<>>
        /\ \A n \in Labels : ~isStatusEffect(n)

\* C11's case: a list of two names was reset, a name was removed since and
\* none was added.
C11_Witness ==
    /\ lastReset > 0
    /\ \A n \in Labels : lastAdd[n] < lastReset
    /\ lastStatus.op = "removeStatusEffect"
    /\ lastStatus.name = "Bless"
    /\ lastReset = clock - 1
    /\ \E n \in Labels : lastRemove[n] > 0 /\ lastRemove[n] < lastReset

\* C12: every positional-array variant is equivalent to the method it is
\* named after: XArr(a1, ..., an) changes the actor's effects exactly as
\* X(a1, ..., an) does and returns the same result; this includes
\* updateActiveEffectFromNameOnTokenArr against
\* updateActiveEffectFromNameOnToken.
C12_ArrVariantsEquivalent ==
    last.op # "none" =>
        [effs |-> effects, res |-> last.res] \in Direct(last.op, last.args, last.before)

\* The toggles of one effect, and the effect a toggle call is about: its
\* position in the collection the call found, 0 when there is none.
ToggleOps ==
    {"toggleEffectFromIdOnActor", "toggleEffectFromIdOnToken", "toggleEffectFromDataOnToken"}

TargetOf(l) ==
    LET coll == l.before[l.args.actor]
    IN IF l.op = "toggleEffectFromDataOnToken"
       THEN FirstOf({k \in 1 .. Len(coll) :
                \/ l.args.effect.customId # NoId /\ coll[k].id = l.args.effect.customId
                \/ Lower(coll[k].label) = Lower(l.args.effect.name)})
       ELSE FirstOf({k \in 1 .. Len(coll) : coll[k].id = l.args.effectId})

OtherActorsKept(l) == \A a \in Actors \ {l.args.actor} : effects[a] = l.before[a]

OutcomesOf(f) ==
    CASE f.op = "toggleEffect" ->
             toggleEffect(f.before, f.args.effectName, f.uuids, f.args.effectData)
      [] f.op = "removeEffectOnActor" ->
             removeEffectOnActor(f.before, f.args.effectName, f.uuids[1])
      [] f.op = "addEffectOnActor" ->
             addEffectOnActor(f.before, f.args.effectName, f.uuids[1], f.args.effect)
      [] f.op = "addActiveEffectOnActor" ->
             addActiveEffectOnActor(f.before, f.uuids[1], f.args.activeEffectData)
      [] f.op = "toggleEffectFromIdOnToken" ->
             toggleEffectFromIdOnToken(f.before, f.args.effectId, f.uuids[1],
                                       f.args.alwaysDelete, f.args.forceEnabled,
                                       f.args.forceDisabled)

\* The call run step by step ends where the operation run at once ends.
StepsAgreeWithOutcomes ==
    pc[1] = "done" => effects \in {o.effs : o \in OutcomesOf(call[1])}

\* C16: every handler operation on one actor or token issues at most one
\* mutating host call (create, update or delete) and issues it only after
\* its scan of the effects collection; toggleEffect issues at most one
\* mutating call per listed uuid, in list order, each awaited before the
\* next uuid is examined, and none for actors that are not listed.
C16_OneHostCallAfterScan ==
    pc[1] # "idle" =>
        LET f == call[1]
            L == f.log
            Is(p, ev) == L[p].ev = ev
        IN /\ \A p \in 1 .. Len(L) : Is(p, "issue") =>
                  /\ \E q \in 1 .. p - 1 : Is(q, "scan") /\ L[q].at = L[p].at
                  /\ L[p].actor = ActorOf(f.op, f.uuids[L[p].at])
                  /\ \A q \in 1 .. p - 1 : Is(q, "issue") => L[q].at < L[p].at
           /\ \A q \in 1 .. Len(L) : Is(q, "scan") =>
                  \A p \in 1 .. q - 1 : Is(p, "issue") =>
                      \E c \in p + 1 .. q - 1 : Is(c, "complete") /\ L[c].at = L[p].at
           /\ \A a \in Actors :
                  (\A k \in 1 .. Len(f.uuids) : ActorOf(f.op, f.uuids[k]) # a)
                      => effects[a] = f.before[a]

\* What holds of every call: at most one host call for each listed uuid,
\* in list order, never before the scan of that uuid where there is one,
\* each completed before the next uuid is examined.
HostCallsInOrder ==
    pc[1] # "idle" =>
        LET L == call[1].log
        IN /\ \A p, q \in 1 .. Len(L) :
                  (p < q /\ L[p].ev = "issue" /\ L[q].ev = "issue") => L[p].at < L[q].at
           /\ \A p, q \in 1 .. Len(L) :
                  (p < q /\ L[p].ev = "issue" /\ L[q].ev = "scan") =>
                      /\ L[p].at < L[q].at
                      /\ \E c \in p + 1 .. q - 1 : L[c].ev = "complete" /\ L[c].at = L[p].at
           /\ \A p \in 1 .. Len(L) : L[p].ev = "issue" =>
                  L[p].actor = ActorOf(call[1].op, call[1].uuids[L[p].at])
           /\ \A a \in Actors :
                  (\A k \in 1 .. Len(call[1].uuids) :
                       ActorOf(call[1].op, call[1].uuids[k]) # a)
                      => effects[a] = call[1].before[a]

\* C17: the query operations hasEffectApplied, hasEffectAppliedOnActor,
\* hasEffectAppliedOnToken, hasEffectAppliedFromIdOnActor,
\* hasEffectAppliedFromIdOnToken, findEffectByNameOnActor and
\* findEffectByNameOnToken leave the effects collection of every actor as it
\* was before the call.
C17_QueriesLeaveCollectionsUnchanged ==
    last.op \in QueryOps => \A a \in Actors : effects[a] = last.before[a]

\* C17's case: a query has found an effect on an actor that holds two, and
\* both are still there.
C17_Witness ==
    /\ last.op = "findEffectByNameOnToken"
    /\ last.res = 2
    /\ Len(effects[TokenActor(last.args.uuid)]) = 2
    /\ effects = last.before

\* C18: hasEffectApplied(effectName, uuid) returns true only when the actor
\* holds an active effect that matches effectName and is a convenient effect
\* (carries the isConvenient flag); a matching effect without the flag does
\* not make it return true.
C18_HasEffectAppliedOnlyForConvenient ==
    (last.op = "hasEffectApplied" /\ last.res = TRUE) =>
        \E i \in 1 .. Len(last.before[last.args.uuid]) :
            /\ isStringEquals(last.before[last.args.uuid][i].label, last.args.effectName)
            /\ last.before[last.args.uuid][i].isConvenient

\* The actor of the observed call held an effect whose label is the
\* localized effectName ignoring case.
HeldByName(l) == MatchCount(l.before[l.args.actor], l.args.effectName) >= 1

C20_ForceFlagsDecideTheFlag ==
    (/\ last.op \in ToggleOps
     /\ TargetOf(last) # 0
     /\ ~last.args.alwaysDelete
     /\ last.args.forceEnabled # last.args.forceDisabled)
    => effects[last.args.actor][TargetOf(last)].disabled = last.args.forceDisabled

\* C21: when addEffectOnActor (or addEffectOnToken with a token that has an
\* actor) is called with an empty origin argument, the created active
\* effect's origin is `Actor.<id of the target actor>`; this holds for each
\* call of a sequence that passes the same Effect object, whose origin was
\* empty before the first call, to different actors.
C21_CreatedOriginIsTargetActor ==
    (/\ last.op \in {"addEffectOnActor", "addEffectOnToken"}
     /\ last.args.origin = ""
     /\ last.res = "created")
    => LET coll == effects[last.args.actor]
       IN coll[Len(coll)].origin = ActorOrigin(last.args.actor)

\* Processing uuid number k of the observed toggleEffect call fails: no
\* effectData was passed, the uuids before it were processed, and the
\* actor then neither has the effect applied nor holds an effect of that
\* name.
FailsAt(l, k) ==
    /\ l.args.effectData = Undefined
    /\ \A o \in toggleEffect(l.before, l.args.effectName, SubSeq(l.args.uuids, 1, k - 1),
                             Undefined) :
           /\ o.res = "true"
           /\ ~hasEffectApplied(o.effs, l.args.effectName, l.args.uuids[k])
           /\ MatchCount(o.effs[l.args.uuids[k]], l.args.effectName) = 0

ListedBefore(l, k) == {l.args.uuids[j] : j \in 1 .. k - 1}

\* C22: toggleEffect is not atomic over its uuid list: when processing one
\* uuid fails (the effect is not applied on that actor, no effect of that
\* name exists on it and no effectData was passed), the actors listed
\* before it stay toggled, the failing actor and the actors listed after it
\* are left unchanged, and the call ends in an error instead of returning
\* true.
C22_ToggleEffectKeepsEarlierToggles ==
    last.op = "toggleEffect" =>
        \A k \in 1 .. Len(last.args.uuids) : FailsAt(last, k) =>
            /\ last.res = "error"
            /\ \A a \in ListedBefore(last, k) :
                   ~hasEffectApplied(effects, last.args.effectName, a)
            /\ \A a \in Actors \ ListedBefore(last, k) : effects[a] = last.before[a]

\* The same where every actor listed before the failing one held just one
\* effect of that name, labelled exactly effectName.
ToggleEffectKeepsExactlyNamedToggles ==
    last.op = "toggleEffect" =>
        \A k \in 1 .. Len(last.args.uuids) :
            (/\ FailsAt(last, k)
             /\ \A a \in ListedBefore(last, k) :
                    /\ MatchCount(last.before[a], last.args.effectName) = 1
                    /\ FindByLabelStrict(last.before[a], last.args.effectName) # 0)
            => /\ last.res = "error"
               /\ \A a \in ListedBefore(last, k) :
                      /\ ~hasEffectApplied(effects, last.args.effectName, a)
                      /\ Len(effects[a]) = Len(last.before[a]) - 1
               /\ \A a \in Actors \ ListedBefore(last, k) : effects[a] = last.before[a]

\* An earlier actor was toggled and the call failed at the next.
ToggledThenFailed ==
    /\ last.op = "toggleEffect"
    /\ last.args.uuids = <<"a1", "a2">>
    /\ FailsAt(last, 2)
    /\ last.res = "error"
    /\ Len(effects["a1"]) = Len(last.before["a1"]) - 1

\* C23: called with an effectId that no effect of the actor carries,
\* toggleEffectFromIdOnToken returns undefined and makes no host call,
\* whereas toggleEffectFromIdOnActor has no such guard and ends in an
\* error; in both cases the actor's effects collection is unchanged.
C23_UnknownIdTogglesNothing ==
    (/\ last.op \in {"toggleEffectFromIdOnActor", "toggleEffectFromIdOnToken"}
     /\ last.args.effectId \notin IdsOf(last.before[last.args.actor]))
    => /\ effects = last.before
       /\ last.res = IF last.op = "toggleEffectFromIdOnToken" THEN "notfound" ELSE "error"

\* C23's case: the actor of the token holds an effect under id 1 and the
\* toggle names id 2.
C23_Witness ==
    /\ last.op = "toggleEffectFromIdOnToken"
    /\ last.args.effectId = 2
    /\ IdsOf(last.before[last.args.actor]) = {1}
    /\ last.res = "notfound"
    /\ effects = last.before

====
